---- MODULE Spec2Model ----
(***************************************************************************)
(* Permit sync worker of the SF DBI data pipeline: DataValidator,          *)
(* PermitDataTransformer and PermitSyncService.processPermitData with its  *)
(* three pipeline sends and the D1 fallback table permit_fallback.         *)
(***************************************************************************)
EXTENDS Integers, Sequences, FiniteSets, TLC

(***************************************************************************)
(* JavaScript values.  Every value is a record [t, v]: t is the kind of    *)
(* the value and v its content (0 where the kind has no content).  An      *)
(* object is a record of values; a key an object literal leaves out reads  *)
(* as undefined, as in JavaScript.                                         *)
(***************************************************************************)
Undefined == [t |-> "undefined", v |-> 0]
Null == [t |-> "null", v |-> 0]
NaN == [t |-> "NaN", v |-> 0]
Str(s) == [t |-> "string", v |-> s]
Num(n) == [t |-> "number", v |-> n]
Obj(r) == [t |-> "object", v |-> r]
Arr(s) == [t |-> "array", v |-> s]

\* An object that more than one holder can reach is kept in the heap, and the
\* holders have a reference to it: copying the value of permit.location
\* copies the reference, and a write through one holder is seen by all.
Ref(a) == [t |-> "reference", v |-> a]

VARIABLE heap       \* the objects held by reference, by address

\* typeof x
TypeOf(x) ==
  CASE x.t = "undefined" -> "undefined"
    [] x.t \in {"string", "isotime"} -> "string"
    [] x.t \in {"number", "NaN"} -> "number"
    [] OTHER -> "object"

\* ToBoolean(x): undefined, null, NaN, 0 and '' are falsy
Truthy(x) ==
  CASE x.t \in {"undefined", "null", "NaN"} -> FALSE
    [] x.t = "string" -> x.v # ""
    [] x.t = "number" -> x.v # 0
    [] OTHER -> TRUE

\* new Date().toISOString() at time n of the clock
IsoTime(n) == [t |-> "isotime", v |-> n]

\* x.k for an x that is neither null nor undefined
Get(x, k) ==
  LET o == IF x.t = "reference" THEN heap[x.v] ELSE x
  IN IF o.t = "object" /\ k \in DOMAIN o.v THEN o.v[k] ELSE Undefined

\* x?.k
OptGet(x, k) == IF x.t \in {"undefined", "null"} THEN Undefined ELSE Get(x, k)

\* a || b
OrElse(a, b) == IF Truthy(a) THEN a ELSE b

(***************************************************************************)
(* Dates.  Date.parse of the date strings the model uses, as seconds since *)
(* the epoch (every modelled date is a whole second, so the millisecond    *)
(* value of getTime() is 1000 times this); any other string is NaN.        *)
(***************************************************************************)
SecondsPerDay == 86400

DateTable ==
  [d \in {"2023-01-01T00:00:00Z", "2023-01-15T00:00:00Z", "2023-01-31T00:00:00Z",
          "2023-02-01T00:00:00Z", "2023-02-01T12:00:00Z", "2023-02-15T00:00:00Z",
          "2023-03-15T00:00:00Z"} |->
     CASE d = "2023-01-01T00:00:00Z" -> 1672531200
       [] d = "2023-01-15T00:00:00Z" -> 1673740800
       [] d = "2023-01-31T00:00:00Z" -> 1675123200
       [] d = "2023-02-01T00:00:00Z" -> 1675209600
       [] d = "2023-02-01T12:00:00Z" -> 1675252800
       [] d = "2023-02-15T00:00:00Z" -> 1676419200
       [] d = "2023-03-15T00:00:00Z" -> 1678838400]

\* Date.parse(x) / new Date(x).getTime(): a number, or NaN
DateParse(x) ==
  IF x.t = "string" /\ x.v \in DOMAIN DateTable THEN Num(DateTable[x.v]) ELSE NaN

\* Math.ceil(a / b) for b > 0
CeilDiv(a, b) == -((-a) \div b)

(***************************************************************************)
(* DataValidator.validatePermitData.  An error message is the sequence of  *)
(* the string fragments of its template literal.                           *)
(***************************************************************************)
RequiredFieldChecks ==
  << <<"id", "Permit ID is required">>,
     <<"application_number", "Application number is required">>,
     <<"permit_type", "Permit type is required">>,
     <<"status", "Status is required">>,
     <<"filed_date", "Filed date is required">>,
     <<"description", "Description is required">> >>

LocationFieldChecks ==
  << <<"address", "Location address is required">>,
     <<"block", "Location block is required">>,
     <<"lot", "Location lot is required">>,
     <<"zipcode", "Location zipcode is required">> >>

dateFields == <<"filed_date", "issued_date", "completed_date">>

\* the checks chained with else if: the first failing check alone is reported
MissingErrorsFirstOnly(o, checks) ==
  LET failing == SelectSeq(checks, LAMBDA c : ~Truthy(Get(o, c[1])))
  IN IF failing = <<>> THEN <<>> ELSE << <<failing[1][2]>> >>

\* the messages of the checks of a list whose field is falsy, in list order
RECURSIVE MissingErrors(_, _)
MissingErrors(o, checks) ==
  IF checks = <<>> THEN <<>>
  ELSE (IF Truthy(Get(o, Head(checks)[1])) THEN <<>> ELSE << <<Head(checks)[2]>> >>)
       \o MissingErrors(o, Tail(checks))

\* the four sub-field checks on data.location?.<field>, outside the else
LocationErrorsFlat(data) ==
  (IF ~Truthy(Get(data, "location")) THEN << <<"Location is required">> >> ELSE <<>>)
  \o MissingErrors(Get(data, "location"), LocationFieldChecks)

LocationErrors(data) ==
  IF ~Truthy(Get(data, "location")) THEN << <<"Location is required">> >>
  ELSE MissingErrors(Get(data, "location"), LocationFieldChecks)

\* isNaN(Date.parse(data[field])) without the data[field] && before it
DateErrorsUnguarded(data, fields) ==
  LET failing == SelectSeq(fields, LAMBDA f : DateParse(Get(data, f)).t = "NaN")
  IN [n \in DOMAIN failing |-> <<failing[n], " must be a valid date">>]

RECURSIVE DateErrors(_, _)
DateErrors(data, fields) ==
  IF fields = <<>> THEN <<>>
  ELSE (IF Truthy(Get(data, Head(fields))) /\ DateParse(Get(data, Head(fields))).t = "NaN"
        THEN << <<Head(fields), " must be a valid date">> >> ELSE <<>>)
       \o DateErrors(data, Tail(fields))

\* data.<cost> <= 0 in place of data.<cost> < 0
CostInvalidAtZero(x) ==
  x.t # "undefined" /\ (TypeOf(x) # "number" \/ (x.t = "number" /\ x.v <= 0))

CostInvalid(x) ==
  x.t # "undefined" /\ (TypeOf(x) # "number" \/ (x.t = "number" /\ x.v < 0))

CostErrors(data) ==
  (IF CostInvalid(Get(data, "estimated_cost"))
   THEN << <<"Estimated cost must be a positive number">> >> ELSE <<>>)
  \o (IF CostInvalid(Get(data, "revised_cost"))
      THEN << <<"Revised cost must be a positive number">> >> ELSE <<>>)

\* the field checks without the !data test before them
validatePermitDataUnguarded(data) ==
  LET errors == MissingErrors(data, RequiredFieldChecks) \o LocationErrors(data)
                \o DateErrors(data, dateFields) \o CostErrors(data)
  IN [valid |-> Len(errors) = 0, errors |-> errors]

validatePermitData(data) ==
  IF ~Truthy(data)
  THEN [valid |-> FALSE, errors |-> << <<"Permit data is required">> >>]
  ELSE LET errors == MissingErrors(data, RequiredFieldChecks) \o LocationErrors(data)
                     \o DateErrors(data, dateFields) \o CostErrors(data)
       IN [valid |-> Len(errors) = 0, errors |-> errors]

(***************************************************************************)
(* PermitDataTransformer.  Reading a property of undefined or null throws  *)
(* a TypeError; a function that throws returns Throw(e).                   *)
(***************************************************************************)
Throw(e) == [t |-> "throw", v |-> e]

Nullish(x) == x.t \in {"undefined", "null"}

\* permit.<field> || null for the optional fields
transformForIngestionNullFilled(permit) ==
  IF Nullish(permit) THEN Throw("TypeError")
  ELSE Obj([permit_id |-> Get(permit, "id"),
            application_number |-> Get(permit, "application_number"),
            permit_type |-> Get(permit, "permit_type"),
            status |-> Get(permit, "status"),
            dates |-> Obj([filed |-> Get(permit, "filed_date"),
                           issued |-> OrElse(Get(permit, "issued_date"), Null),
                           completed |-> OrElse(Get(permit, "completed_date"), Null)]),
            description |-> Get(permit, "description"),
            costs |-> Obj([estimated |-> OrElse(Get(permit, "estimated_cost"), Null),
                           revised |-> OrElse(Get(permit, "revised_cost"), Null)]),
            usage |-> Obj([existing |-> OrElse(Get(permit, "existing_use"), Null),
                           proposed |-> OrElse(Get(permit, "proposed_use"), Null)]),
            plansets |-> OrElse(Get(permit, "plansets"), Null),
            location |-> Get(permit, "location"),
            contact |-> OrElse(Get(permit, "contact_info"), Null)])

transformForIngestion(permit) ==
  IF Nullish(permit) THEN Throw("TypeError")
  ELSE Obj([permit_id |-> Get(permit, "id"),
            application_number |-> Get(permit, "application_number"),
            permit_type |-> Get(permit, "permit_type"),
            status |-> Get(permit, "status"),
            dates |-> Obj([filed |-> Get(permit, "filed_date"),
                           issued |-> Get(permit, "issued_date"),
                           completed |-> Get(permit, "completed_date")]),
            description |-> Get(permit, "description"),
            costs |-> Obj([estimated |-> Get(permit, "estimated_cost"),
                           revised |-> Get(permit, "revised_cost")]),
            usage |-> Obj([existing |-> Get(permit, "existing_use"),
                           proposed |-> Get(permit, "proposed_use")]),
            plansets |-> Get(permit, "plansets"),
            location |-> Get(permit, "location"),
            contact |-> Get(permit, "contact_info")])

FiledEvent(permit) ==
  Obj([permit_id |-> Get(permit, "id"),
       event_type |-> Str("filed"),
       event_date |-> Get(permit, "filed_date"),
       status |-> Get(permit, "status"),
       details |-> Obj([application_number |-> Get(permit, "application_number"),
                        permit_type |-> Get(permit, "permit_type")])])

IssuedEvent(permit) ==
  Obj([permit_id |-> Get(permit, "id"),
       event_type |-> Str("issued"),
       event_date |-> Get(permit, "issued_date"),
       status |-> Get(permit, "status"),
       details |-> Obj([costs |-> Obj([estimated |-> Get(permit, "estimated_cost"),
                                       revised |-> Get(permit, "revised_cost")])])])

CompletedEvent(permit) ==
  Obj([permit_id |-> Get(permit, "id"),
       event_type |-> Str("completed"),
       event_date |-> Get(permit, "completed_date"),
       status |-> Get(permit, "status"),
       details |-> Obj(<<>>)])

\* the completed event pushed before the issued event
transformForEventsReordered(permit) ==
  IF Nullish(permit) THEN Throw("TypeError")
  ELSE Obj([events |-> Arr(
         (IF Truthy(Get(permit, "filed_date")) THEN <<FiledEvent(permit)>> ELSE <<>>)
         \o (IF Truthy(Get(permit, "completed_date")) THEN <<CompletedEvent(permit)>> ELSE <<>>)
         \o (IF Truthy(Get(permit, "issued_date")) THEN <<IssuedEvent(permit)>> ELSE <<>>))])

transformForEvents(permit) ==
  IF Nullish(permit) THEN Throw("TypeError")
  ELSE Obj([events |-> Arr(
         (IF Truthy(Get(permit, "filed_date")) THEN <<FiledEvent(permit)>> ELSE <<>>)
         \o (IF Truthy(Get(permit, "issued_date")) THEN <<IssuedEvent(permit)>> ELSE <<>>)
         \o (IF Truthy(Get(permit, "completed_date")) THEN <<CompletedEvent(permit)>> ELSE <<>>))])

\* a - b on numbers; NaN when an operand is not a number
Minus(a, b) == IF a.t = "number" /\ b.t = "number" THEN Num(a.v - b.v) ELSE NaN

\* Math.ceil((issued.getTime() - filed.getTime()) / (1000 * 60 * 60 * 24))
DaysBetween(filed, issued) ==
  LET diff == Minus(DateParse(issued), DateParse(filed))
  IN IF diff.t = "number" THEN Num(CeilDiv(diff.v, SecondsPerDay)) ELSE NaN

processing_days(permit) ==
  IF Truthy(Get(permit, "issued_date")) /\ Truthy(Get(permit, "filed_date"))
  THEN DaysBetween(Get(permit, "filed_date"), Get(permit, "issued_date"))
  ELSE Null

cost_variance(permit) ==
  IF Truthy(Get(permit, "revised_cost")) /\ Truthy(Get(permit, "estimated_cost"))
  THEN Minus(Get(permit, "revised_cost"), Get(permit, "estimated_cost"))
  ELSE Null

transformForAnalytics(permit) ==
  IF Nullish(permit) \/ Nullish(Get(permit, "location")) THEN Throw("TypeError")
  ELSE Obj([permit_id |-> Get(permit, "id"),
            permit_type |-> Get(permit, "permit_type"),
            location_data |-> Obj([block |-> Get(Get(permit, "location"), "block"),
                                   lot |-> Get(Get(permit, "location"), "lot"),
                                   zipcode |-> Get(Get(permit, "location"), "zipcode")]),
            timeline_data |-> Obj([filed_date |-> Get(permit, "filed_date"),
                                   issued_date |-> Get(permit, "issued_date"),
                                   completed_date |-> Get(permit, "completed_date"),
                                   processing_days |-> processing_days(permit)]),
            cost_data |-> Obj([estimated |-> Get(permit, "estimated_cost"),
                               revised |-> Get(permit, "revised_cost"),
                               cost_variance |-> cost_variance(permit)]),
            inspection_data |-> OrElse(Get(permit, "inspector_info"), Null)])

(***************************************************************************)
(* Input records: the fixtures of the worker's tests, a second permit, a   *)
(* record with only an id, and the absent input.                           *)
(***************************************************************************)
PermitFields ==
  {"id", "application_number", "permit_type", "status", "filed_date", "issued_date",
   "completed_date", "description", "estimated_cost", "revised_cost", "existing_use",
   "proposed_use", "plansets", "location", "contact_info", "inspector_info"}

\* an object literal: the listed keys, every other PermitData key undefined
Permit(r) == Obj([k \in PermitFields |-> IF k \in DOMAIN r THEN r[k] ELSE Undefined])

samplePermitData ==
  Permit([id |-> Str("PERM-123456"),
          application_number |-> Str("APP-2023-001"),
          permit_type |-> Str("Building"),
          status |-> Str("Issued"),
          filed_date |-> Str("2023-01-15T00:00:00Z"),
          issued_date |-> Str("2023-02-01T00:00:00Z"),
          completed_date |-> Str("2023-03-15T00:00:00Z"),
          description |-> Str("Residential renovation project"),
          estimated_cost |-> Num(50000),
          revised_cost |-> Num(55000),
          existing_use |-> Str("Single Family Dwelling"),
          proposed_use |-> Str("Single Family Dwelling with Addition"),
          plansets |-> Num(3),
          location |-> Obj([address |-> Str("123 Main St, San Francisco, CA"),
                            block |-> Str("1234"), lot |-> Str("056"),
                            zipcode |-> Str("94102")]),
          contact_info |-> Obj([applicant_name |-> Str("John Doe"),
                                applicant_address |-> Str("123 Main St, San Francisco, CA 94102")]),
          inspector_info |-> Obj([inspector_name |-> Str("Jane Smith"),
                                  inspection_date |-> Str("2023-02-15T00:00:00Z"),
                                  inspection_status |-> Str("Approved")])])

minimalData ==
  Permit([id |-> Str("PERM-123456"),
          application_number |-> Str("APP-2023-001"),
          permit_type |-> Str("Building"),
          status |-> Str("Filed"),
          filed_date |-> Str("2023-01-15T00:00:00Z"),
          description |-> Str("Basic permit"),
          location |-> Obj([address |-> Str("123 Main St"), block |-> Str("1234"),
                            lot |-> Str("056"), zipcode |-> Str("94102")])])

secondPermit ==
  Permit([id |-> Str("PERM-TEST-001"),
          application_number |-> Str("APP-2023-002"),
          permit_type |-> Str("Electrical"),
          status |-> Str("Filed"),
          filed_date |-> Str("2023-01-01T00:00:00Z"),
          issued_date |-> Str("2023-01-31T00:00:00Z"),
          description |-> Str("Panel upgrade"),
          estimated_cost |-> Num(0),
          location |-> Obj([address |-> Str("456 Oak Ave"), block |-> Str("5678"),
                            lot |-> Str("012"), zipcode |-> Str("94110")])])

onlyId == Permit([id |-> Str("PERM-123456")])

Inputs == {samplePermitData, minimalData, secondPermit, onlyId, Undefined}

(***************************************************************************)
(* PermitSyncService.  NumInv invocations of processPermitData run on one  *)
(* event loop: each action is one synchronous stretch of one invocation,   *)
(* or the settling of one promise by a pipeline or by D1.                  *)
(***************************************************************************)
\* the invocations in flight at a time under SpecConc
NumInv == 2

\* the clock stops at MaxClock
MaxClock == 1

Inv == 1..NumInv

\* what send() and run() reject with
Reasons == {"Error: pipeline unavailable", "Error: timeout"}

\* sendToIngestionPipeline called twice, sendToEventsPipeline never
DispatchIngestionTwice == <<"ingestion", "ingestion", "analytics">>

\* the sends of the Promise.allSettled array, by position
Dispatch == <<"ingestion", "events", "analytics">>

pipelineNames == <<"ingestion", "events", "analytics">>

Channels == {"ingestion", "events", "analytics"}

VARIABLES
  pc,               \* where each invocation stands
  permitData,       \* its argument
  errors,           \* its local errors array
  allSuccessful,    \* its local allSuccessful flag
  pipelineResults,  \* the three promises of its Promise.allSettled array
  channelLog,       \* the payloads each pipeline received from it: send() calls
  d1Calls,          \* the rows it bound and ran against D1
  fallback,         \* the promise of its D1 run
  result,           \* what it resolved with
  permit_fallback,  \* the rows of the D1 table permit_fallback
  clock,            \* the wall clock
  request,          \* the HTTP request fetch was called with
  bodyRead,         \* whether fetch has called request.json()
  response,         \* the Response fetch returned
  arg,              \* the argument of a direct call of the validator
  ret,              \* what the call returned
  options,          \* the options of the ComprehensiveTestRunner
  at,               \* where its runDataFlowVerification stands
  VERIFICATION_RESULTS,  \* the flags of the module of the DataFlowVerifier
  exitCode,         \* the code process.exit was last called with
  thrown,           \* the error that is propagating
  capturedOutput,   \* the lines console.log and console.error were called with
  results           \* this.results.dataFlow of the runner

serviceVars == <<pc, permitData, errors, allSuccessful, pipelineResults, channelLog,
                 d1Calls, fallback, result, permit_fallback, clock>>

httpVars == <<request, bodyRead, response>>

callVars == <<arg, ret>>

runnerVars == <<options, at, VERIFICATION_RESULTS, exitCode, thrown, capturedOutput, results>>

vars == <<serviceVars, httpVars, callVars, heap, runnerVars>>

\* no object is held by reference
NoObjects == [a \in {} |-> Undefined]

\* const VERIFICATION_RESULTS = {...}, without performanceMetrics
NoResults ==
  [dataFlow |-> FALSE, r2Storage |-> FALSE, fileNaming |-> FALSE, dataIntegrity |-> FALSE,
   compression |-> FALSE, batchTiming |-> FALSE, errorScenarios |-> FALSE]

\* this.results.dataFlow = null
NoDataFlow == [status |-> "null"]

\* no test runner has been started
RunnerIdle ==
  /\ options = [staging |-> FALSE, verbose |-> FALSE]
  /\ at = "idle"
  /\ VERIFICATION_RESULTS = NoResults
  /\ exitCode = 0
  /\ thrown = <<>>
  /\ capturedOutput = <<>>
  /\ results = [dataFlow |-> NoDataFlow]

NoReturn == [fn |-> "", value |-> Undefined]

NoRequest == [method |-> "", body |-> ""]

NoResponse == [status |-> 0, contentType |-> "", body |-> Undefined]

NoPromise == [status |-> "none", reason |-> ""]
Pending == [status |-> "pending", reason |-> ""]
Fulfilled == [status |-> "fulfilled", reason |-> ""]
Rejected(r) == [status |-> "rejected", reason |-> r]

NoResult == [success |-> FALSE, errors |-> << <<"(pending)">> >>]

\* errors declared outside the method: one array for every invocation
errorsOfShared(i) == 1

\* the errors array an invocation pushes to: a local of the invocation
errorsOf(i) == i

\* the method goes on after a failed validation
validationFailedIgnored(validation) == FALSE

\* if (!validation.valid) return
validationFailed(validation) == ~validation.valid

Settled(p) == p.status \in {"fulfilled", "rejected"}

\* Promise.race: resolves once one promise has settled
allSettledAsRace(ps) == \E k \in DOMAIN ps : Settled(ps[k])

\* Promise.all: resolves once every promise has fulfilled or one has rejected
allSettledAsAll(ps) ==
  (\A k \in DOMAIN ps : Settled(ps[k])) \/ (\E k \in DOMAIN ps : ps[k].status = "rejected")

\* Promise.allSettled resolves once every promise of the array has settled
allSettled(ps) == \A k \in DOMAIN ps : Settled(ps[k])

PipelinePayload(data, target, now) ==
  [data |-> data,
   metadata |-> [timestamp |-> IsoTime(now), source |-> "permit-sync-worker",
                 version |-> "1.0.0", pipeline_target |-> target]]

sendToIngestionPipeline(permit, now) ==
  PipelinePayload(transformForIngestion(permit), "ingestion", now)

\* the body of sendToIngestionPipeline pasted into sendToEventsPipeline
sendToEventsPipelineAsIngestion(permit, now) ==
  PipelinePayload(transformForIngestion(permit), "ingestion", now)

sendToEventsPipeline(permit, now) ==
  PipelinePayload(transformForEvents(permit), "events", now)

sendToAnalyticsPipeline(permit, now) ==
  PipelinePayload(transformForAnalytics(permit), "analytics", now)

\* the payload built by the send function of a channel
sendTo(c, permit, now) ==
  CASE c = "ingestion" -> sendToIngestionPipeline(permit, now)
    [] c = "events" -> sendToEventsPipeline(permit, now)
    [] c = "analytics" -> sendToAnalyticsPipeline(permit, now)

\* the payloads handed to channel c by the calls of a dispatch list, in order
RECURSIVE SendsTo(_, _, _, _)
SendsTo(c, targets, permit, now) ==
  IF targets = <<>> THEN <<>>
  ELSE (IF Head(targets) = c /\ sendTo(c, permit, now).data.t # "throw"
        THEN <<sendTo(c, permit, now)>> ELSE <<>>)
       \o SendsTo(c, Tail(targets), permit, now)

\* the promise of the k-th call: rejected at once when the transform throws
\* before send() is reached, pending on the pipeline otherwise
IssuedPromise(k, permit, now) ==
  LET payload == sendTo(Dispatch[k], permit, now)
  IN IF payload.data.t = "throw" THEN Rejected(payload.data.v) ELSE Pending

\* the errors of the rejected promises from the last of the array to the first
ChannelErrorsReversed(ps, k) ==
  LET rejected == SelectSeq(<<3, 2, 1>>, LAMBDA j : j >= k /\ ps[j].status = "rejected")
  IN [n \in DOMAIN rejected |->
        <<"Failed to send to ", pipelineNames[rejected[n]], " pipeline: ",
          ps[rejected[n]].reason>>]

\* pipelineResults.forEach: one error per rejected promise, in array order
RECURSIVE ChannelErrors(_, _)
ChannelErrors(ps, k) ==
  IF k > Len(ps) THEN <<>>
  ELSE (IF ps[k].status = "rejected"
        THEN << <<"Failed to send to ", pipelineNames[k], " pipeline: ", ps[k].reason>> >>
        ELSE <<>>)
       \o ChannelErrors(ps, k + 1)

AnyRejected(ps) == \E k \in DOMAIN ps : ps[k].status = "rejected"

\* the fallback runs whatever the pipelines answered
needsFallbackAlways(ok) == TRUE

\* if (!allSuccessful): the D1 fallback is tried
needsFallback(ok) == ~ok

\* the ingestion shape handed to saveToD1Fallback
fallbackArgumentDerived(permit) == transformForIngestion(permit)

\* saveToD1Fallback(permitData): the fallback is handed the record itself
fallbackArgument(permit) == permit

\* await this.saveToD1Fallback(permitData) outside any try
escapesUncaught(p) == p.status = "rejected"

\* the rejection of the awaited D1 run leaves the method as an exception:
\* never, the await stands in a try block with a catch
escapes(p) == FALSE

\* catch (fallbackError) without the push
fallbackFailedSwallowed(errs, reason) == errs

\* catch (fallbackError): the fallback error is pushed
fallbackFailed(errs, reason) == Append(errs, <<"D1 fallback also failed: ", reason>>)

\* the values saveToD1Fallback binds, by column
saveToD1Fallback(permit, now) ==
  [id |-> Get(permit, "id"),
   application_number |-> Get(permit, "application_number"),
   permit_type |-> Get(permit, "permit_type"),
   status |-> Get(permit, "status"),
   filed_date |-> Get(permit, "filed_date"),
   issued_date |-> Get(permit, "issued_date"),
   completed_date |-> Get(permit, "completed_date"),
   description |-> Get(permit, "description"),
   estimated_cost |-> Get(permit, "estimated_cost"),
   revised_cost |-> Get(permit, "revised_cost"),
   existing_use |-> Get(permit, "existing_use"),
   proposed_use |-> Get(permit, "proposed_use"),
   plansets |-> Get(permit, "plansets"),
   address |-> Get(Get(permit, "location"), "address"),
   block |-> Get(Get(permit, "location"), "block"),
   lot |-> Get(Get(permit, "location"), "lot"),
   zipcode |-> Get(Get(permit, "location"), "zipcode"),
   applicant_name |-> OptGet(Get(permit, "contact_info"), "applicant_name"),
   applicant_address |-> OptGet(Get(permit, "contact_info"), "applicant_address"),
   inspector_name |-> OptGet(Get(permit, "inspector_info"), "inspector_name"),
   inspection_date |-> OptGet(Get(permit, "inspector_info"), "inspection_date"),
   inspection_status |-> OptGet(Get(permit, "inspector_info"), "inspection_status"),
   created_at |-> IsoTime(now)]

\* INSERT without OR REPLACE, on a table without the primary key
InsertOnly(table, row) == table \cup {row}

\* INSERT OR REPLACE on a table whose primary key is id: the rows in
\* conflict with the new row are deleted, then the new row is inserted
InsertOrReplace(table, row) == {r \in table : r.id # row.id} \cup {row}

\* return { success: allSuccessful || errors.length === 0, errors }
Outcome(ok, errs) == [success |-> ok \/ Len(errs) = 0, errors |-> errs]

\* no invocation, no request
Idle ==
  /\ pc = [i \in Inv |-> "idle"]
  /\ permitData = [i \in Inv |-> Undefined]
  /\ errors = [i \in Inv |-> <<>>]
  /\ allSuccessful = [i \in Inv |-> TRUE]
  /\ pipelineResults = [i \in Inv |-> [k \in 1..3 |-> NoPromise]]
  /\ channelLog = [i \in Inv |-> [c \in Channels |-> <<>>]]
  /\ d1Calls = [i \in Inv |-> <<>>]
  /\ fallback = [i \in Inv |-> NoPromise]
  /\ result = [i \in Inv |-> NoResult]
  /\ clock = 0
  /\ request = [i \in Inv |-> NoRequest]
  /\ bodyRead = [i \in Inv |-> FALSE]
  /\ response = [i \in Inv |-> NoResponse]

Init ==
  /\ Idle
  /\ permit_fallback \in {{}, {saveToD1Fallback(secondPermit, 0)}}
  /\ arg = Undefined
  /\ ret = NoReturn
  /\ heap = NoObjects
  /\ RunnerIdle

\* processPermitData(data) is called and runs to its first await: validation
\* fails and it returns, or the three sends are issued
Call(i, data) ==
  /\ pc[i] = "idle"
  /\ permitData' = [permitData EXCEPT ![i] = data]
  /\ errors' = [errors EXCEPT ![errorsOf(i)] = <<>>]
  /\ LET validation == validatePermitData(data)
     IN IF validationFailed(validation)
        THEN /\ result' = [result EXCEPT ![i] = [success |-> FALSE, errors |-> validation.errors]]
             /\ pc' = [pc EXCEPT ![i] = "done"]
             /\ UNCHANGED <<pipelineResults, channelLog>>
        ELSE /\ pipelineResults' = [pipelineResults EXCEPT
                  ![i] = [k \in 1..3 |-> IssuedPromise(k, data, clock)]]
             /\ channelLog' = [channelLog EXCEPT
                  ![i] = [c \in Channels |-> SendsTo(c, Dispatch, data, clock)]]
             /\ pc' = [pc EXCEPT ![i] = "awaitSettled"]
             /\ UNCHANGED result
  /\ UNCHANGED <<allSuccessful, d1Calls, fallback, permit_fallback, clock>>

\* a pipeline settles the promise of a send: the send succeeded, or it failed
\* (send() throwing is a rejection that settles first)
Settle(i, k, p) ==
  /\ pipelineResults[i][k].status = "pending"
  /\ pipelineResults' = [pipelineResults EXCEPT ![i][k] = p]
  /\ UNCHANGED <<pc, permitData, errors, allSuccessful, channelLog, d1Calls, fallback,
                 result, permit_fallback, clock>>

\* the await of Promise.allSettled resumes: the results are checked, and the
\* invocation returns or runs the D1 fallback statement
Resume(i) ==
  /\ pc[i] = "awaitSettled"
  /\ allSettled(pipelineResults[i])
  /\ LET ps == pipelineResults[i]
         ok == ~AnyRejected(ps)
         errs == errors[errorsOf(i)] \o ChannelErrors(ps, 1)
     IN /\ allSuccessful' = [allSuccessful EXCEPT ![i] = ok]
        /\ errors' = [errors EXCEPT ![errorsOf(i)] = errs]
        /\ IF ~needsFallback(ok)
           THEN /\ result' = [result EXCEPT ![i] = Outcome(ok, errs)]
                /\ pc' = [pc EXCEPT ![i] = "done"]
                /\ UNCHANGED <<d1Calls, fallback>>
           ELSE /\ d1Calls' = [d1Calls EXCEPT
                     ![i] = Append(@, saveToD1Fallback(fallbackArgument(permitData[i]), clock))]
                /\ fallback' = [fallback EXCEPT ![i] = Pending]
                /\ pc' = [pc EXCEPT ![i] = "awaitFallback"]
                /\ UNCHANGED result
  /\ UNCHANGED <<permitData, pipelineResults, channelLog, permit_fallback, clock>>

\* D1 settles the run: the row is written and the invocation returns, or the
\* run fails (prepare(), bind() or run() throwing is a rejection as well) and
\* the invocation adds the fallback error and returns; an exception that
\* escaped the method would reject the invocation instead
FallbackSettle(i, p) ==
  /\ pc[i] = "awaitFallback"
  /\ fallback[i].status = "pending"
  /\ Settled(p)
  /\ fallback' = [fallback EXCEPT ![i] = p]
  /\ IF escapes(p)
     THEN /\ pc' = [pc EXCEPT ![i] = "rejected"]
          /\ UNCHANGED <<errors, result>>
     ELSE LET errs == IF p.status = "rejected"
                      THEN fallbackFailed(errors[errorsOf(i)], p.reason)
                      ELSE errors[errorsOf(i)]
          IN /\ errors' = [errors EXCEPT ![errorsOf(i)] = errs]
             /\ result' = [result EXCEPT ![i] = Outcome(allSuccessful[i], errs)]
             /\ pc' = [pc EXCEPT ![i] = "done"]
  /\ permit_fallback' = IF p.status = "fulfilled"
                        THEN InsertOrReplace(permit_fallback, d1Calls[i][Len(d1Calls[i])])
                        ELSE permit_fallback
  /\ UNCHANGED <<permitData, allSuccessful, pipelineResults, channelLog, d1Calls, clock>>

\* the caller takes the result; the invocation and its locals are gone
Return(i) ==
  /\ pc[i] = "done"
  /\ pc' = [pc EXCEPT ![i] = "idle"]
  /\ permitData' = [permitData EXCEPT ![i] = Undefined]
  /\ errors' = [errors EXCEPT ![errorsOf(i)] = <<>>]
  /\ allSuccessful' = [allSuccessful EXCEPT ![i] = TRUE]
  /\ pipelineResults' = [pipelineResults EXCEPT ![i] = [k \in 1..3 |-> NoPromise]]
  /\ channelLog' = [channelLog EXCEPT ![i] = [c \in Channels |-> <<>>]]
  /\ d1Calls' = [d1Calls EXCEPT ![i] = <<>>]
  /\ fallback' = [fallback EXCEPT ![i] = NoPromise]
  /\ result' = [result EXCEPT ![i] = NoResult]
  /\ UNCHANGED <<permit_fallback, clock>>

\* time passes
Tick ==
  /\ clock < MaxClock
  /\ clock' = clock + 1
  /\ UNCHANGED <<pc, permitData, errors, allSuccessful, pipelineResults, channelLog,
                 d1Calls, fallback, result, permit_fallback>>

Outcomes == {Fulfilled} \cup {Rejected(r) : r \in Reasons}

\* the steps of the invocations of a set, on given inputs and promise outcomes
Step(invs, inputs, outcomes) ==
  \/ \E i \in invs, data \in inputs : Call(i, data)
  \/ \E i \in invs, k \in 1..3, p \in outcomes : Settle(i, k, p)
  \/ \E i \in invs : Resume(i)
  \/ \E i \in invs, p \in outcomes : FallbackSettle(i, p)
  \/ \E i \in invs : Return(i)
  \/ Tick

\* processPermitData is called time after time, one call after the other
Next == Step({1}, Inputs, Outcomes) /\ UNCHANGED <<httpVars, callVars, heap, runnerVars>>

Spec == Init /\ [][Next]_vars

\* NumInv requests are in flight at a time
ConcInputs == {samplePermitData, minimalData, onlyId}

ConcOutcomes == {Fulfilled, Rejected("Error: pipeline unavailable")}

NextConc == Step(Inv, ConcInputs, ConcOutcomes) /\ UNCHANGED <<httpVars, callVars, heap, runnerVars>>

SpecConc == Init /\ [][NextConc]_vars

(***************************************************************************)
(* The HTTP handler fetch.  A request is its method and the text of its    *)
(* body; request.json() parses the text or throws a SyntaxError whose      *)
(* message depends on the text.  A Response is its status, its             *)
(* Content-Type and its body.                                              *)
(***************************************************************************)
Bool(b) == [t |-> "boolean", v |-> b]

Methods == {"POST", "GET", "PUT"}

\* the texts of the request bodies
BodyTexts ==
  {"JSON.stringify(samplePermitData)", "JSON.stringify(minimalData)",
   "JSON.stringify(secondPermit)", "{\"id\":\"PERM-123456\"}", "null", "", "{id:"}

Requests == [method : Methods, body : BodyTexts]

\* await request.json()
JsonParse(text) ==
  CASE text = "JSON.stringify(samplePermitData)" -> samplePermitData
    [] text = "JSON.stringify(minimalData)" -> minimalData
    [] text = "JSON.stringify(secondPermit)" -> secondPermit
    [] text = "{\"id\":\"PERM-123456\"}" -> onlyId
    [] text = "null" -> Null
    [] text = "" -> Throw("SyntaxError: Unexpected end of JSON input")
    [] OTHER -> Throw("SyntaxError: Unexpected token i in JSON at position 1")

\* JSON.stringify(x) of an object literal: the text of a JSON object without
\* the keys whose value is undefined (the other values of the bodies fetch
\* builds are booleans, strings and arrays of strings)
JsonStringify(x) ==
  [t |-> "json",
   v |-> [k \in {f \in DOMAIN x.v : x.v[f].t # "undefined"} |-> x.v[k]]]

\* new Response(body, {status}) of a string: the body is sent as plain text
TextResponse(body, status) ==
  [status |-> status, contentType |-> "text/plain;charset=UTF-8", body |-> Str(body)]

\* new Response(JSON.stringify(x), {status, headers: {'Content-Type': 'application/json'}})
JsonResponse(x, status) ==
  [status |-> status, contentType |-> "application/json", body |-> JsonStringify(x)]

\* request.method !== 'POST' for every method
methodAllowedAny(method) == TRUE

methodAllowed(method) == method = "POST"

\* if (true) in place of if (result.success)
succeededAlways(res) == TRUE

succeeded(res) == res.success

\* error: String(error) in the body of the catch block
errorReplyEchoed(error) == Str(error)

\* the error member of the body the catch block sends
errorReply(error) == Str("Internal server error")

\* the catch block of fetch
InternalServerError(error) ==
  JsonResponse(Obj([success |-> Bool(FALSE), error |-> errorReply(error)]), 500)

\* fetch(request) runs to its first await: a method other than POST is
\* answered at once, a POST starts reading the body
Fetch(i, req) ==
  /\ request[i] = NoRequest
  /\ pc[i] = "idle"
  /\ request' = [request EXCEPT ![i] = req]
  /\ IF methodAllowed(req.method)
     THEN /\ bodyRead' = [bodyRead EXCEPT ![i] = TRUE]
          /\ UNCHANGED response
     ELSE /\ response' = [response EXCEPT ![i] = TextResponse("Method not allowed", 405)]
          /\ UNCHANGED bodyRead
  /\ UNCHANGED serviceVars

\* request.json() settles: the text does not parse and the catch block answers,
\* or processPermitData is called with the parsed value
BodyParsed(i) ==
  /\ bodyRead[i]
  /\ response[i] = NoResponse
  /\ pc[i] = "idle"
  /\ LET permit == JsonParse(request[i].body)
     IN IF permit.t = "throw"
        THEN /\ response' = [response EXCEPT ![i] = InternalServerError(permit.v)]
             /\ UNCHANGED serviceVars
        ELSE /\ Call(i, permit)
             /\ UNCHANGED response
  /\ UNCHANGED <<request, bodyRead>>

\* processPermitData has settled and fetch builds the response
Respond(i) ==
  /\ bodyRead[i]
  /\ response[i] = NoResponse
  /\ pc[i] \in {"done", "rejected"}
  /\ response' =
       [response EXCEPT ![i] =
          IF pc[i] = "rejected"
          THEN InternalServerError(fallback[i].reason)
          ELSE IF succeeded(result[i])
          THEN IF Nullish(permitData[i])
               THEN InternalServerError("TypeError")
               ELSE JsonResponse(Obj([success |-> Bool(TRUE),
                                      message |-> Str("Permit data processed successfully"),
                                      permit_id |-> Get(permitData[i], "id")]), 200)
          ELSE JsonResponse(Obj([success |-> Bool(FALSE),
                                 errors |-> Arr(result[i].errors)]), 400)]
  /\ UNCHANGED <<request, bodyRead>>
  /\ UNCHANGED serviceVars

\* the response is sent; the request and the locals of fetch are gone
Close(i) ==
  /\ response[i] # NoResponse
  /\ request' = [request EXCEPT ![i] = NoRequest]
  /\ bodyRead' = [bodyRead EXCEPT ![i] = FALSE]
  /\ response' = [response EXCEPT ![i] = NoResponse]
  /\ IF pc[i] = "done" THEN Return(i) ELSE UNCHANGED serviceVars

\* the steps of fetch and of the invocation it awaits
HttpStep ==
  \/ \E req \in Requests : Fetch(1, req)
  \/ BodyParsed(1)
  \/ \E k \in 1..3, p \in Outcomes : Settle(1, k, p) /\ UNCHANGED httpVars
  \/ Resume(1) /\ UNCHANGED httpVars
  \/ \E p \in Outcomes : FallbackSettle(1, p) /\ UNCHANGED httpVars
  \/ Respond(1)
  \/ Close(1)
  \/ Tick /\ UNCHANGED httpVars

\* the worker answers one request after the other
NextHttp == HttpStep /\ UNCHANGED <<callVars, heap, runnerVars>>

SpecHttp == Init /\ [][NextHttp]_vars

(***************************************************************************)
(* Direct calls of DataValidator.validatePermitData, as the worker's tests *)
(* make them: the argument is one of a set of records built from the       *)
(* fixtures by leaving out, blanking or replacing fields.                  *)
(***************************************************************************)
\* {...o, ...r}
Overlay(o, r) == Obj([k \in DOMAIN o.v |-> IF k \in DOMAIN r THEN r[k] ELSE o.v[k]])

requiredStrings == {"id", "application_number", "permit_type", "status", "description"}

locationFields == {"address", "block", "lot", "zipcode"}

\* a date: left out, blank, a date, no date
FiledChoices == {Undefined, Str(""), Str("2023-01-15T00:00:00Z"), Str("invalid-date")}

IssuedChoices == {Undefined, Str(""), Str("2023-02-01T00:00:00Z"), Str("also-invalid")}

CompletedChoices == {Undefined, Str(""), Str("2023-03-15T00:00:00Z"), Str("not-a-date")}

\* a cost: left out, zero, positive, negative, no number
CostChoices == {Undefined, Num(0), Num(50000), Num(-100), Str("not-a-number")}

\* location: left out, or the location of minimalData without some of its
\* fields, or with a blank address
LocationChoices ==
  {Undefined, Overlay(Get(minimalData, "location"), [address |-> Str("")])}
  \cup {Overlay(Get(minimalData, "location"), [k \in missing |-> Undefined]) :
          missing \in SUBSET locationFields}

\* minimalData without some required fields
RequiredInputs ==
  {Overlay(minimalData,
           [k \in missing |-> Undefined] @@ [filed_date |-> fd, location |-> loc]) :
     missing \in SUBSET requiredStrings, fd \in FiledChoices, loc \in LocationChoices}

\* minimalData with some required fields blank
BlankInputs ==
  {Overlay(minimalData, [k \in blank |-> Str("")]) : blank \in SUBSET requiredStrings}

\* minimalData with dates and costs of every kind
DateCostInputs ==
  {Overlay(minimalData,
           [filed_date |-> fd, issued_date |-> id, completed_date |-> cd,
            estimated_cost |-> ec, revised_cost |-> rc]) :
     fd \in FiledChoices, id \in IssuedChoices, cd \in CompletedChoices,
     ec \in CostChoices, rc \in CostChoices}

ValidatorInputs ==
  Inputs \cup {Null} \cup RequiredInputs \cup BlankInputs \cup DateCostInputs

InitValidator ==
  /\ Idle
  /\ permit_fallback = {}
  /\ arg \in ValidatorInputs
  /\ ret = NoReturn
  /\ heap = NoObjects
  /\ RunnerIdle

\* validator.validatePermitData(arg)
Validate ==
  /\ ret = NoReturn
  /\ ret' = [fn |-> "validatePermitData", value |-> validatePermitData(arg)]
  /\ UNCHANGED <<arg, serviceVars, httpVars, heap, runnerVars>>

NextValidator == Validate

SpecValidator == InitValidator /\ [][NextValidator]_vars

(***************************************************************************)
(* Direct calls of the three functions of PermitDataTransformer, as the    *)
(* worker's tests make them: the argument is samplePermitData with dates,  *)
(* costs and location left out, blanked or replaced, or one of the         *)
(* fixtures.                                                               *)
(***************************************************************************)
\* filed_date: left out, blank, before or after the issued dates, no date
TransformFiledChoices ==
  {Undefined, Str(""), Str("2023-01-15T00:00:00Z"), Str("2023-02-15T00:00:00Z"),
   Str("invalid-date")}

\* issued_date: left out, blank, whole days or days and a half from the filed
\* dates, no date
TransformIssuedChoices ==
  {Undefined, Str(""), Str("2023-01-31T00:00:00Z"), Str("2023-02-01T00:00:00Z"),
   Str("2023-02-01T12:00:00Z"), Str("also-invalid")}

TransformCompletedChoices == {Undefined, Str(""), Str("2023-03-15T00:00:00Z")}

EstimatedChoices == {Undefined, Num(0), Num(50000)}

RevisedChoices == {Undefined, Num(0), Num(45000), Num(55000)}

\* location: left out, whole, or without its block
TransformLocationChoices ==
  {Undefined, Get(samplePermitData, "location"),
   Overlay(Get(samplePermitData, "location"), [block |-> Undefined])}

TransformInputs ==
  (Inputs \ {Undefined})
  \cup {Overlay(samplePermitData,
                [filed_date |-> fd, issued_date |-> id, completed_date |-> cd,
                 estimated_cost |-> ec, revised_cost |-> rc, location |-> loc]) :
          fd \in TransformFiledChoices, id \in TransformIssuedChoices,
          cd \in TransformCompletedChoices, ec \in EstimatedChoices,
          rc \in RevisedChoices, loc \in TransformLocationChoices}

InitTransform ==
  /\ Idle
  /\ permit_fallback = {}
  /\ arg \in TransformInputs
  /\ ret = NoReturn
  /\ heap = NoObjects
  /\ RunnerIdle

\* PermitDataTransformer.transformForIngestion(arg)
Ingestion ==
  /\ ret = NoReturn
  /\ ret' = [fn |-> "transformForIngestion", value |-> transformForIngestion(arg)]
  /\ UNCHANGED <<arg, serviceVars, httpVars, heap, runnerVars>>

\* PermitDataTransformer.transformForEvents(arg)
Events ==
  /\ ret = NoReturn
  /\ ret' = [fn |-> "transformForEvents", value |-> transformForEvents(arg)]
  /\ UNCHANGED <<arg, serviceVars, httpVars, heap, runnerVars>>

\* PermitDataTransformer.transformForAnalytics(arg)
Analytics ==
  /\ ret = NoReturn
  /\ ret' = [fn |-> "transformForAnalytics", value |-> transformForAnalytics(arg)]
  /\ UNCHANGED <<arg, serviceVars, httpVars, heap, runnerVars>>

NextTransform == Ingestion \/ Events \/ Analytics

SpecTransform == InitTransform /\ [][NextTransform]_vars

(***************************************************************************)
(* A call of processPermitData whose pipelines write to the payloads they  *)
(* were handed.  The nested objects of the record (location, contact_info, *)
(* inspector_info) are held by reference; every object literal of the      *)
(* transformers is a new object that only its payload leads to.            *)
(***************************************************************************)
SharedObjects == {"location", "contact_info", "inspector_info"}

\* the record of the tests, as the caller holds it
sharedPermitData == Overlay(samplePermitData, [a \in SharedObjects |-> Ref(a)])

\* the properties a pipeline writes to
WrittenKeys == {"permit_id", "address", "block", "inspector_name"}

\* the value it writes
Modified == Str("(modified)")

InitIsolation ==
  /\ Idle
  /\ permit_fallback = {}
  /\ arg = Undefined
  /\ ret = NoReturn
  /\ heap = [a \in SharedObjects |-> Get(samplePermitData, a)]
  /\ RunnerIdle

\* the objects a value leads to by reference
RECURSIVE References(_)
References(x) ==
  CASE x.t = "reference" -> {x.v}
    [] x.t = "object" -> UNION {References(x.v[k]) : k \in DOMAIN x.v}
    [] x.t = "array" -> UNION {References(x.v[n]) : n \in DOMAIN x.v}
    [] OTHER -> {}

\* the pipeline of channel c writes to a property of an object its payload
\* has by reference: payload.data.location.address = value
WriteShared(i, c, a, k, value) ==
  /\ channelLog[i][c] # <<>>
  /\ a \in References(channelLog[i][c][1].data)
  /\ k \in DOMAIN heap[a].v
  /\ heap[a].v[k] # value
  /\ heap' = [heap EXCEPT ![a] = Overlay(@, [f \in {k} |-> value])]
  /\ UNCHANGED <<serviceVars, httpVars, callVars, runnerVars>>

\* the pipeline of channel c writes to a property of the data object of its
\* payload: payload.data.permit_id = value
WriteOwn(i, c, k, value) ==
  /\ channelLog[i][c] # <<>>
  /\ LET data == channelLog[i][c][1].data
     IN /\ k \in DOMAIN data.v
        /\ data.v[k] # value
        /\ channelLog' = [channelLog EXCEPT
             ![i][c][1].data = Overlay(data, [f \in {k} |-> value])]
  /\ UNCHANGED <<pc, permitData, errors, allSuccessful, pipelineResults, d1Calls,
                 fallback, result, permit_fallback, clock, httpVars, callVars, heap, runnerVars>>

NextIsolation ==
  \/ Step({1}, {sharedPermitData}, ConcOutcomes) /\ UNCHANGED <<httpVars, callVars, heap, runnerVars>>
  \/ \E c \in Channels, a \in SharedObjects, k \in WrittenKeys :
       WriteShared(1, c, a, k, Modified)
  \/ \E c \in Channels, k \in WrittenKeys : WriteOwn(1, c, k, Modified)

SpecIsolation == InitIsolation /\ [][NextIsolation]_vars

(***************************************************************************)
(* The exported schema validators validatePermitRecord, validateEventRecord*)
(* and validateInspectorAnalyticsRecord over validateCommonFields.  A      *)
(* ValidationResult is the record of isValid, errors, warnings and score.  *)
(***************************************************************************)
PERMIT_REQUIRED_FIELDS ==
  <<"permit_number", "permit_type", "property_address", "status",
    "ingestion_timestamp", "source_system", "raw_data", "schema_version">>

EVENT_REQUIRED_FIELDS ==
  <<"event_id", "event_type", "event_status", "event_date",
    "ingestion_timestamp", "source_system", "raw_data", "schema_version">>

INSPECTOR_ANALYTICS_REQUIRED_FIELDS ==
  <<"analytics_id", "reporting_period", "inspector_id", "total_inspections",
    "completed_inspections", "pass_rate", "fail_rate", "aggregation_level",
    "ingestion_timestamp", "source_system", "raw_data", "schema_version">>

\* record[field] === undefined || record[field] === null || record[field] === ''
Empty(x) == x.t \in {"undefined", "null"} \/ x = Str("")

\* /^\d+\.\d+\.\d+$/.test(x), of the version strings of the model
SemVer(x) == x.t = "string" /\ x.v \in {"1.0.0"}

\* Math.round((valid / total) * 100)
Round100(valid, total) == (200 * valid + total) \div (2 * total)

\* isValidDateString(x) of a string: every string of DateTable has a '-'
isValidDateString(x) == DateParse(x).t # "NaN" /\ x.v \in DOMAIN DateTable

\* isValidTimestamp(x) of a string: every string of DateTable has a 'T'
isValidTimestamp(x) == DateParse(x).t # "NaN" /\ x.v \in DOMAIN DateTable

\* one message for each field of a list, in the order of the list
Messages(fields, before, after) == [n \in DOMAIN fields |-> <<before, fields[n], after>>]

\* x && typeof x !== 'string'
NotString(x) == Truthy(x) /\ TypeOf(x) # "string"

\* x && typeof x !== 'object'
NotObject(x) == Truthy(x) /\ TypeOf(x) # "object"

\* x && !Array.isArray(x)
NotArray(x) == Truthy(x) /\ x.t # "array"

\* x !== undefined && (typeof x !== 'number' || x < lo || x > hi)
OutOfRange(x, lo, hi) ==
  x.t # "undefined" /\ (TypeOf(x) # "number" \/ (x.t = "number" /\ (x.v < lo \/ x.v > hi)))

\* x !== undefined && (typeof x !== 'number' || x < 0)
Negative(x) ==
  x.t # "undefined" /\ (TypeOf(x) # "number" \/ (x.t = "number" /\ x.v < 0))

\* x && isNaN(new Date(x).getTime())
NotTimestamp(x) == Truthy(x) /\ DateParse(x).t = "NaN"

validateCommonFields(record, requiredFields) ==
  LET errs ==
        Messages(SelectSeq(requiredFields, LAMBDA f : Empty(Get(record, f))),
                 "Required field '", "' is missing or empty")
        \o Messages(SelectSeq(<<"ingestion_timestamp">>,
                              LAMBDA f : NotTimestamp(Get(record, f))),
                    "", " must be a valid ISO 8601 timestamp")
        \o Messages(SelectSeq(<<"source_system">>, LAMBDA f : NotString(Get(record, f))),
                    "", " must be a string")
        \o Messages(SelectSeq(<<"raw_data">>, LAMBDA f : NotObject(Get(record, f))),
                    "", " must be an object")
      warnings ==
        Messages(SelectSeq(<<"schema_version">>,
                           LAMBDA f : Truthy(Get(record, f)) /\ ~SemVer(Get(record, f))),
                 "", " should follow semantic versioning (x.y.z)")
      validFields ==
        Cardinality({n \in DOMAIN requiredFields : ~Empty(Get(record, requiredFields[n]))})
  IN [isValid |-> errs = <<>>,
      errors |-> errs,
      warnings |-> warnings,
      score |-> Round100(validFields, Len(requiredFields))]

\* isValid is worked out anew after the checks of the schema
Revalidated(r) == [r EXCEPT !.isValid = (r.errors = <<>>)]

\* the result the validator of a schema returns: the result of the common
\* checks, its errors and warnings pushed to by the checks of the schema
Returns(r) == r

validatePermitRecord(record) ==
  LET baseResult == validateCommonFields(record, PERMIT_REQUIRED_FIELDS)
  IN Returns([baseResult EXCEPT
       !.errors = @
         \o Messages(SelectSeq(<<"permit_number", "permit_type", "property_address",
                                 "status">>, LAMBDA f : NotString(Get(record, f))),
                     "", " must be a string")
         \o Messages(SelectSeq(<<"estimated_cost", "revised_cost">>,
                               LAMBDA f : Negative(Get(record, f))),
                     "", " must be a non-negative number")
         \o Messages(SelectSeq(<<"latitude">>,
                               LAMBDA f : OutOfRange(Get(record, f), -90, 90)),
                     "", " must be a number between -90 and 90")
         \o Messages(SelectSeq(<<"longitude">>,
                               LAMBDA f : OutOfRange(Get(record, f), -180, 180)),
                     "", " must be a number between -180 and 180"),
       !.warnings = @
         \o Messages(SelectSeq(<<"application_date", "issued_date", "completed_date",
                                 "expiration_date">>,
                               LAMBDA f : /\ Truthy(Get(record, f))
                                          /\ ~isValidDateString(Get(record, f))),
                     "", " should be a valid ISO 8601 date string")])

validateEventRecord(record) ==
  LET baseResult == validateCommonFields(record, EVENT_REQUIRED_FIELDS)
  IN Returns([baseResult EXCEPT
       !.errors = @
         \o Messages(SelectSeq(<<"event_id", "event_type", "event_status">>,
                               LAMBDA f : NotString(Get(record, f))),
                     "", " must be a string")
         \o Messages(SelectSeq(<<"event_date">>,
                               LAMBDA f : /\ Truthy(Get(record, f))
                                          /\ ~isValidDateString(Get(record, f))),
                     "", " must be a valid ISO 8601 date string")
         \o Messages(SelectSeq(<<"fee_amount">>, LAMBDA f : Negative(Get(record, f))),
                     "", " must be a non-negative number")
         \o Messages(SelectSeq(<<"deficiencies", "corrections_required", "document_ids">>,
                               LAMBDA f : NotArray(Get(record, f))),
                     "", " must be an array"),
       !.warnings = @
         \o Messages(SelectSeq(<<"event_timestamp", "processing_timestamp">>,
                               LAMBDA f : /\ Truthy(Get(record, f))
                                          /\ ~isValidTimestamp(Get(record, f))),
                     "", " should be a valid ISO 8601 timestamp")])

validateInspectorAnalyticsRecord(record) ==
  LET baseResult == validateCommonFields(record, INSPECTOR_ANALYTICS_REQUIRED_FIELDS)
  IN Returns([baseResult EXCEPT
       !.errors = @
         \o Messages(SelectSeq(<<"analytics_id", "inspector_id", "reporting_period",
                                 "aggregation_level">>,
                               LAMBDA f : NotString(Get(record, f))),
                     "", " must be a string")
         \o Messages(SelectSeq(
              <<"total_inspections", "completed_inspections", "pass_rate", "fail_rate",
                "building_inspections", "electrical_inspections", "plumbing_inspections",
                "mechanical_inspections", "fire_safety_inspections", "other_inspections">>,
              LAMBDA f : Negative(Get(record, f))),
                     "", " must be a non-negative number")
         \o Messages(SelectSeq(<<"pass_rate", "fail_rate", "reinspection_rate">>,
                               LAMBDA f : OutOfRange(Get(record, f), 0, 100)),
                     "", " must be a number between 0 and 100")
         \o Messages(SelectSeq(<<"districts_covered", "neighborhoods_covered">>,
                               LAMBDA f : NotArray(Get(record, f))),
                     "", " must be an array")])

\* the fields every record of the three schemas has
commonFields ==
  [ingestion_timestamp |-> Str("2023-01-15T00:00:00Z"),
   source_system |-> Str("sf-dbi"),
   raw_data |-> Obj([id |-> Str("PERM-123456")]),
   schema_version |-> Str("1.0.0")]

\* a record of fields r and the common fields
Record(r) ==
  Obj([k \in DOMAIN r \cup DOMAIN commonFields |->
         IF k \in DOMAIN r THEN r[k] ELSE commonFields[k]])

PermitRecords ==
  {Record([permit_number |-> number, permit_type |-> Str("Building"),
           property_address |-> Str("123 Main St"), status |-> Str("Issued"),
           estimated_cost |-> cost, latitude |-> latitude, issued_date |-> issued,
           ingestion_timestamp |-> timestamp, schema_version |-> version]) :
     number \in {Str("P-2023-001"), Undefined, Str(""), Num(7)},
     cost \in {Undefined, Num(-100), Num(0), Str("abc")},
     latitude \in {Undefined, Num(37), Num(91)},
     issued \in {Undefined, Str("invalid-date")},
     timestamp \in {Str("2023-01-15T00:00:00Z"), Str("invalid-date")},
     version \in {Str("1.0.0"), Str("v1")}}

EventRecords ==
  {Record([event_id |-> id, event_type |-> Str("inspection"),
           event_status |-> Str("completed"), event_date |-> date,
           fee_amount |-> fee, deficiencies |-> deficiencies,
           event_timestamp |-> timestamp]) :
     id \in {Str("EVT-1"), Undefined, Num(7)},
     date \in {Str("2023-02-01T00:00:00Z"), Str("invalid-date"), Undefined},
     fee \in {Undefined, Num(-5), Num(10)},
     deficiencies \in {Undefined, Arr(<<Str("railing")>>), Str("railing")},
     timestamp \in {Undefined, Str("invalid-date")}}

InspectorAnalyticsRecords ==
  {Record([analytics_id |-> id, reporting_period |-> Str("2023-01"),
           inspector_id |-> Str("INSP-1"), total_inspections |-> total,
           completed_inspections |-> Num(9), pass_rate |-> pass, fail_rate |-> Num(10),
           aggregation_level |-> Str("monthly"), reinspection_rate |-> again,
           districts_covered |-> districts]) :
     id \in {Str("AN-1"), Undefined},
     total \in {Num(10), Num(-1), Undefined},
     pass \in {Num(90), Num(101), Num(-1), Str("high")},
     again \in {Undefined, Num(150)},
     districts \in {Undefined, Str("all")}}

InitSchema ==
  /\ Idle
  /\ permit_fallback = {}
  /\ arg \in PermitRecords \cup EventRecords \cup InspectorAnalyticsRecords
  /\ ret = NoReturn
  /\ heap = NoObjects
  /\ RunnerIdle

\* validatePermitRecord(arg)
ValidatePermitRecord ==
  /\ ret = NoReturn
  /\ arg \in PermitRecords
  /\ ret' = [fn |-> "validatePermitRecord", value |-> validatePermitRecord(arg)]
  /\ UNCHANGED <<arg, serviceVars, httpVars, heap, runnerVars>>

\* validateEventRecord(arg)
ValidateEventRecord ==
  /\ ret = NoReturn
  /\ arg \in EventRecords
  /\ ret' = [fn |-> "validateEventRecord", value |-> validateEventRecord(arg)]
  /\ UNCHANGED <<arg, serviceVars, httpVars, heap, runnerVars>>

\* validateInspectorAnalyticsRecord(arg)
ValidateInspectorAnalyticsRecord ==
  /\ ret = NoReturn
  /\ arg \in InspectorAnalyticsRecords
  /\ ret' = [fn |-> "validateInspectorAnalyticsRecord",
             value |-> validateInspectorAnalyticsRecord(arg)]
  /\ UNCHANGED <<arg, serviceVars, httpVars, heap, runnerVars>>

NextSchema ==
  ValidatePermitRecord \/ ValidateEventRecord \/ ValidateInspectorAnalyticsRecord

SpecSchema == InitSchema /\ [][NextSchema]_vars

(***************************************************************************)
(* ComprehensiveTestRunner.runDataFlowVerification over the                *)
(* DataFlowVerifier.  What wrangler answers is the input of each check.  A *)
(* line of output is kept by its level; its text is left out.              *)
(***************************************************************************)
\* the pipelines of PIPELINES, and their buckets
NumPipelines == 3

\* keys of objects: one that follows the naming convention, one that is
\* neither named so nor compressed, one that is compressed only
NamedKey == "2024/01/15/sf-permits-ingestion_20240115_143022_1.json.gz"
PlainKey == "2024/01/15/data.json"
ArchiveKey == "backup/permits.gz"

\* execSync or JSON.parse threw
Failure == <<"(failure)">>

\* the objects the three buckets list, one bucket after the other
Listings ==
  {<<>>, <<NamedKey>>, <<NamedKey, PlainKey>>, <<ArchiveKey>>, <<NamedKey, NamedKey>>}

\* expectedPattern.test(key)
expectedPattern(key) == key = NamedKey

\* key.endsWith('.gz')
endsWithGz(key) == key \in {NamedKey, ArchiveKey}

\* ratio >= 0.9
AtLeastNineTenths(part, total) == 10 * part >= 9 * total

RECURSIVE Times(_, _)
Times(lines, n) == IF n = 0 THEN <<>> ELSE lines \o Times(lines, n - 1)

\* log(message, level) under the console of the runner: console.error and
\* console.log are captured, console.warn is not, and a level that is neither
\* ERROR, WARN nor INFO is printed only when verbose
Log(levels) ==
  capturedOutput \o
    SelectSeq(levels, LAMBDA l : l \in {"ERROR", "INFO"} \/ (l = "DEBUG" /\ options.verbose))

\* process.exit as the runner replaced it
ProcessExit(code) == <<"Process exit called with code ", IF code = 0 THEN "0" ELSE "1">>

\* error.message.includes('Process exit called')
IsProcessExit(error) == error # <<>> /\ error[1] = "Process exit called with code "

InitRunner ==
  /\ Idle
  /\ permit_fallback = {}
  /\ arg = Undefined
  /\ ret = NoReturn
  /\ heap = NoObjects
  /\ options \in [staging : BOOLEAN, verbose : BOOLEAN]
  /\ at = "idle"
  /\ VERIFICATION_RESULTS = NoResults
  /\ exitCode = 0
  /\ thrown = <<>>
  /\ capturedOutput = <<>>
  /\ results = [dataFlow |-> NoDataFlow]

\* runDataFlowVerification up to the call of verifier.runVerification(): the
\* console and process.exit are replaced
RunDataFlowVerification ==
  /\ at = "idle"
  /\ at' = "runVerification"
  /\ exitCode' = 0
  /\ capturedOutput' = <<>>
  /\ UNCHANGED <<options, VERIFICATION_RESULTS, thrown, results>>

\* runVerification up to its first check
RunVerification ==
  /\ at = "runVerification"
  /\ capturedOutput' = Log(<<"INFO", "INFO">>)
  /\ at' = "verifyPipelineStatus"
  /\ UNCHANGED <<options, VERIFICATION_RESULTS, exitCode, thrown, results>>

\* verifyPipelineStatus: every pipeline exists (missing = 0), or the check of
\* pipeline missing throws
verifyPipelineStatus(missing) ==
  /\ at = "verifyPipelineStatus"
  /\ IF missing = 0
     THEN /\ capturedOutput' =
               Log(<<"INFO">> \o Times(<<"DEBUG", "INFO">>, NumPipelines) \o <<"INFO">>)
          /\ VERIFICATION_RESULTS' = [VERIFICATION_RESULTS EXCEPT !.dataFlow = TRUE]
          /\ at' = "verifyR2Storage"
          /\ UNCHANGED thrown
     ELSE /\ capturedOutput' =
               Log(<<"INFO">> \o Times(<<"DEBUG", "INFO">>, missing - 1)
                   \o <<"DEBUG", "ERROR">>)
          /\ VERIFICATION_RESULTS' = [VERIFICATION_RESULTS EXCEPT !.dataFlow = FALSE]
          /\ thrown' = <<"Pipeline ", "does not exist">>
          /\ at' = "catch"
  /\ UNCHANGED <<options, exitCode, results>>

\* verifyR2Storage with verifyBucketPartitioning: every bucket exists, or the
\* check of bucket missing throws; the partitioning of a bucket is logged as
\* good, or as a warning
verifyR2Storage(missing, partitioned) ==
  /\ at = "verifyR2Storage"
  /\ LET bucket == <<"DEBUG", "INFO", "DEBUG", IF partitioned THEN "INFO" ELSE "WARN">>
     IN IF missing = 0
        THEN /\ capturedOutput' =
                  Log(<<"INFO">> \o Times(bucket, NumPipelines) \o <<"INFO">>)
             /\ VERIFICATION_RESULTS' = [VERIFICATION_RESULTS EXCEPT !.r2Storage = TRUE]
             /\ at' = "verifyFileNaming"
             /\ UNCHANGED thrown
        ELSE /\ capturedOutput' =
                  Log(<<"INFO">> \o Times(bucket, missing - 1) \o <<"DEBUG", "ERROR">>)
             /\ VERIFICATION_RESULTS' = [VERIFICATION_RESULTS EXCEPT !.r2Storage = FALSE]
             /\ thrown' = <<"R2 bucket ", "does not exist">>
             /\ at' = "catch"
  /\ UNCHANGED <<options, exitCode, results>>

\* verifyFileNaming: the check passes, fails, finds no file or is cut short by
\* an error, and returns
verifyFileNaming(objects) ==
  /\ at = "verifyFileNaming"
  /\ IF objects = Failure
     THEN /\ capturedOutput' = Log(<<"INFO", "ERROR">>)
          /\ VERIFICATION_RESULTS' = [VERIFICATION_RESULTS EXCEPT !.fileNaming = FALSE]
     ELSE LET totalFiles == Len(objects)
              validFiles == Len(SelectSeq(objects, expectedPattern))
              passed == totalFiles # 0 /\ AtLeastNineTenths(validFiles, totalFiles)
          IN /\ capturedOutput' =
                  Log(<<"INFO">> \o Times(<<"DEBUG">>, totalFiles - validFiles)
                      \o <<IF totalFiles = 0 THEN "WARN"
                           ELSE IF passed THEN "INFO" ELSE "ERROR">>)
             /\ VERIFICATION_RESULTS' =
                  IF passed THEN [VERIFICATION_RESULTS EXCEPT !.fileNaming = TRUE]
                  ELSE VERIFICATION_RESULTS
  /\ at' = "verifyCompression"
  /\ UNCHANGED <<options, exitCode, thrown, results>>

\* verifyCompression: as verifyFileNaming, of the keys that end in .gz
verifyCompression(objects) ==
  /\ at = "verifyCompression"
  /\ IF objects = Failure
     THEN /\ capturedOutput' = Log(<<"INFO", "ERROR">>)
          /\ VERIFICATION_RESULTS' = [VERIFICATION_RESULTS EXCEPT !.compression = FALSE]
     ELSE LET totalFiles == Len(objects)
              compressedFiles == Len(SelectSeq(objects, endsWithGz))
              passed == totalFiles # 0 /\ AtLeastNineTenths(compressedFiles, totalFiles)
          IN /\ capturedOutput' =
                  Log(<<"INFO", IF totalFiles = 0 THEN "WARN"
                                ELSE IF passed THEN "INFO" ELSE "ERROR">>)
             /\ VERIFICATION_RESULTS' =
                  IF passed THEN [VERIFICATION_RESULTS EXCEPT !.compression = TRUE]
                  ELSE VERIFICATION_RESULTS
  /\ at' = "generateReport"
  /\ UNCHANGED <<options, exitCode, thrown, results>>

\* Object.values(VERIFICATION_RESULTS).filter(v => v === true).length
passCount == Cardinality({k \in DOMAIN VERIFICATION_RESULTS : VERIFICATION_RESULTS[k]})

totalChecks == 4

\* generateReport called after the try block: the error leaves runVerification
AfterReportOutside == "caught"

\* where the error of process.exit in generateReport goes: generateReport is
\* called in the try block of runVerification, whose catch takes the error
AfterReport == "catch"

\* generateReport: the report is logged and process.exit is called
generateReport ==
  /\ at = "generateReport"
  /\ LET code == IF passCount = totalChecks THEN 0 ELSE 1
     IN /\ capturedOutput' =
             Log(Times(<<"INFO">>, 7) \o <<IF code = 0 THEN "INFO" ELSE "ERROR">>)
        /\ exitCode' = code
        /\ thrown' = ProcessExit(code)
  /\ at' = AfterReport
  /\ UNCHANGED <<options, VERIFICATION_RESULTS, results>>

\* the catch block of runVerification: the error is logged and
\* process.exit(1) is called, whose error leaves runVerification
CatchVerification ==
  /\ at = "catch"
  /\ capturedOutput' = Log(<<"ERROR">>)
  /\ exitCode' = 1
  /\ thrown' = ProcessExit(1)
  /\ at' = "caught"
  /\ UNCHANGED <<options, VERIFICATION_RESULTS, results>>

\* the runner takes the error of runVerification: the error of process.exit
\* is dropped and the result is recorded by the exit code; any other error is
\* recorded as a failure
RecordDataFlow ==
  /\ at = "caught"
  /\ results' = [results EXCEPT !.dataFlow =
       IF IsProcessExit(thrown)
       THEN [status |-> IF exitCode = 0 THEN "PASS" ELSE "FAIL",
             output |-> capturedOutput,
             exitCode |-> exitCode]
       ELSE [status |-> "FAIL", error |-> thrown]]
  /\ thrown' = <<>>
  /\ at' = "recorded"
  /\ UNCHANGED <<options, VERIFICATION_RESULTS, exitCode, capturedOutput>>

RunnerStep ==
  \/ RunDataFlowVerification
  \/ RunVerification
  \/ \E missing \in 0..NumPipelines : verifyPipelineStatus(missing)
  \/ \E missing \in 0..NumPipelines, partitioned \in BOOLEAN :
       verifyR2Storage(missing, partitioned)
  \/ \E objects \in Listings \cup {Failure} : verifyFileNaming(objects)
  \/ \E objects \in Listings \cup {Failure} : verifyCompression(objects)
  \/ generateReport
  \/ CatchVerification
  \/ RecordDataFlow

NextRunner == RunnerStep /\ UNCHANGED <<serviceVars, httpVars, callVars, heap>>

SpecRunner == InitRunner /\ [][NextRunner]_vars

(***************************************************************************)
(* Properties of processPermitData.                                        *)
(***************************************************************************)
\* invocation i is running or has returned
Called(i) == pc[i] # "idle"

Returned(i) == pc[i] = "done"

\* the record of invocation i has every required field, parseable dates and
\* non-negative costs
ValidRecord(i) == permitData[i] \in {samplePermitData, minimalData, secondPermit}

RejectedAt(i) == {k \in 1..3 : pipelineResults[i][k].status = "rejected"}

ErrorSet(es) == {es[n] : n \in DOMAIN es}

\* the error that names the channel of position k and the reason of its failure
ErrorOfChannel(i, k) ==
  <<"Failed to send to ", <<"ingestion", "events", "analytics">>[k], " pipeline: ",
    pipelineResults[i][k].reason>>

SendCount(i, c) == Len(channelLog[i][c])

\* C1: a valid record, one or more channel sends failed and the fallback write
\* succeeded: the result is success = true and the error list holds the error
\* of each failed channel.
C1_DegradedSuccess ==
  \A i \in Inv :
    (Returned(i) /\ ValidRecord(i) /\ RejectedAt(i) # {} /\ fallback[i].status = "fulfilled")
      => /\ result[i].success = TRUE
         /\ \A k \in RejectedAt(i) : ErrorOfChannel(i, k) \in ErrorSet(result[i].errors)

\* C2: a record that fails validation: the result is success = false with the
\* validator's error list, and no channel send and no fallback write is issued.
C2_InvalidRecordStopsEarly ==
  \A i \in Inv :
    (Called(i) /\ ~ValidRecord(i))
      => /\ Returned(i)
         /\ result[i].success = FALSE
         /\ result[i].errors = validatePermitData(permitData[i]).errors
         /\ result[i].errors # <<>>
         /\ \A c \in Channels : SendCount(i, c) = 0
         /\ \A k \in 1..3 : pipelineResults[i][k] = NoPromise
         /\ d1Calls[i] = <<>>
         /\ fallback[i] = NoPromise

C2_Witness ==
  \E i \in Inv :
    /\ Returned(i)
    /\ permitData[i] = onlyId
    /\ Len(result[i].errors) = 6
    /\ \A c \in Channels : SendCount(i, c) = 0

\* C3: a valid record: the three sends are all issued, the results are checked
\* only when the three have settled, and every failed send is counted in the
\* result while the other two were issued and settled all the same.
C3_WaitForAll ==
  \A i \in Inv :
    (Called(i) /\ ValidRecord(i))
      => /\ \A c \in Channels : SendCount(i, c) = 1
         /\ pc[i] \in {"awaitFallback", "done"}
              => /\ \A k \in 1..3 : Settled(pipelineResults[i][k])
                 /\ allSuccessful[i] = (RejectedAt(i) = {})
                 /\ \A k \in RejectedAt(i) : ErrorOfChannel(i, k) \in ErrorSet(errors[i])

C3_Witness ==
  \E i \in Inv :
    /\ Returned(i) /\ ValidRecord(i)
    /\ pipelineResults[i][1].status = "rejected"
    /\ pipelineResults[i][2].status = "fulfilled"
    /\ pipelineResults[i][3].status = "rejected"
    /\ \A c \in Channels : SendCount(i, c) = 1
    /\ Len(result[i].errors) >= 2

\* C4: the fallback write is in progress only when the three channel sends of
\* the invocation have settled.
C4_FallbackAfterSettlement ==
  \A i \in Inv :
    (fallback[i].status = "pending" \/ d1Calls[i] # <<>>)
      => \A k \in 1..3 : Settled(pipelineResults[i][k])

C4_Witness ==
  \E i \in Inv :
    /\ fallback[i].status = "pending"
    /\ RejectedAt(i) # {}
    /\ \A k \in 1..3 : Settled(pipelineResults[i][k])

\* the columns of a fallback row that come from the record, read off the record
RecordColumns(permit) ==
  [id |-> permit.v.id,
   application_number |-> permit.v.application_number,
   permit_type |-> permit.v.permit_type,
   status |-> permit.v.status,
   filed_date |-> permit.v.filed_date,
   issued_date |-> permit.v.issued_date,
   completed_date |-> permit.v.completed_date,
   description |-> permit.v.description,
   estimated_cost |-> permit.v.estimated_cost,
   revised_cost |-> permit.v.revised_cost,
   existing_use |-> permit.v.existing_use,
   proposed_use |-> permit.v.proposed_use,
   plansets |-> permit.v.plansets,
   address |-> permit.v.location.v.address,
   block |-> permit.v.location.v.block,
   lot |-> permit.v.location.v.lot,
   zipcode |-> permit.v.location.v.zipcode,
   applicant_name |-> IF permit.v.contact_info = Undefined THEN Undefined
                      ELSE permit.v.contact_info.v.applicant_name,
   applicant_address |-> IF permit.v.contact_info = Undefined THEN Undefined
                         ELSE permit.v.contact_info.v.applicant_address,
   inspector_name |-> IF permit.v.inspector_info = Undefined THEN Undefined
                      ELSE permit.v.inspector_info.v.inspector_name,
   inspection_date |-> IF permit.v.inspector_info = Undefined THEN Undefined
                       ELSE permit.v.inspector_info.v.inspection_date,
   inspection_status |-> IF permit.v.inspector_info = Undefined THEN Undefined
                         ELSE permit.v.inspector_info.v.inspection_status]

\* a row without its created_at column
WithoutCreatedAt(row) == [c \in DOMAIN row \ {"created_at"} |-> row[c]]

\* C5: a valid record and at least one failed channel send: the fallback store
\* is written exactly once, with the fields of the source record.
C5_FallbackOnceWithSourceRecord ==
  \A i \in Inv :
    /\ Len(d1Calls[i]) <= 1
    /\ (Returned(i) /\ ValidRecord(i) /\ RejectedAt(i) # {})
         => /\ Len(d1Calls[i]) = 1
            /\ WithoutCreatedAt(d1Calls[i][1]) = RecordColumns(permitData[i])

C5_Witness ==
  \E i \in Inv :
    /\ Returned(i)
    /\ permitData[i] = samplePermitData
    /\ RejectedAt(i) = {2}
    /\ Len(d1Calls[i]) = 1
    /\ d1Calls[i][1].applicant_name = Str("John Doe")

\* C6: a valid record and three successful channel sends: the result is
\* success = true with no error, and the fallback store is not written.
C6_CleanSuccess ==
  \A i \in Inv :
    (Returned(i) /\ ValidRecord(i) /\ \A k \in 1..3 : pipelineResults[i][k].status = "fulfilled")
      => /\ result[i] = [success |-> TRUE, errors |-> <<>>]
         /\ d1Calls[i] = <<>>
         /\ fallback[i] = NoPromise

C6_Witness ==
  \E i \in Inv :
    /\ Returned(i) /\ ValidRecord(i)
    /\ \A k \in 1..3 : pipelineResults[i][k].status = "fulfilled"
    /\ result[i].success = TRUE

\* C7: a valid record, k >= 1 failed channel sends and a failed fallback write:
\* the result is success = false with k + 1 errors, the k channel errors and
\* then the fallback error.
C7_TotalFailure ==
  \A i \in Inv :
    (Returned(i) /\ ValidRecord(i) /\ RejectedAt(i) # {} /\ fallback[i].status = "rejected")
      => LET k == Cardinality(RejectedAt(i))
             es == result[i].errors
         IN /\ result[i].success = FALSE
            /\ Len(es) = k + 1
            /\ \A n \in 1..k : es[n][1] = "Failed to send to "
            /\ es[k + 1] = <<"D1 fallback also failed: ", fallback[i].reason>>

C7_Witness ==
  \E i \in Inv :
    /\ Returned(i) /\ ValidRecord(i)
    /\ RejectedAt(i) = {1, 2, 3}
    /\ fallback[i].status = "rejected"
    /\ Len(result[i].errors) = 4

\* C8: in one invocation each channel receives at most one send call, and
\* exactly one when the record is valid, whatever the sends answer.
C8_NoRetry ==
  \A i \in Inv :
    /\ \A c \in Channels : SendCount(i, c) <= 1
    /\ (Called(i) /\ ValidRecord(i)) => \A c \in Channels : SendCount(i, c) = 1

C8_Witness ==
  \E i \in Inv :
    /\ Returned(i) /\ ValidRecord(i)
    /\ RejectedAt(i) = {1, 2, 3}
    /\ \A c \in Channels : SendCount(i, c) = 1

\* the rows of the table without their created_at column
StoredFields == {WithoutCreatedAt(r) : r \in permit_fallback}

OneRowPerId == \A r1, r2 \in permit_fallback : r1.id = r2.id => r1 = r2

\* invocation i's fallback write succeeds in this step
FallbackWritten(i) == fallback[i].status = "pending" /\ fallback'[i].status = "fulfilled"

\* what a step does to the table: a successful write of row w leaves w as the
\* one row of its id and the rows of the other ids as they were, and changes
\* no stored field when the same fields were stored already; no other step
\* changes the table
UpsertStep ==
  /\ \A i \in Inv :
       FallbackWritten(i) =>
         LET w == d1Calls[i][Len(d1Calls[i])]
         IN /\ w \in permit_fallback'
            /\ \A r \in permit_fallback' : r.id = w.id => r = w
            /\ {r \in permit_fallback' : r.id # w.id} = {r \in permit_fallback : r.id # w.id}
            /\ WithoutCreatedAt(w) \in StoredFields => StoredFields' = StoredFields
  /\ (\A i \in Inv : ~FallbackWritten(i)) => permit_fallback' = permit_fallback

Alone(data, ps, fb) ==
  LET validation == validatePermitData(data)
  IN IF validationFailed(validation)
     THEN [success |-> FALSE, errors |-> validation.errors]
     ELSE LET ok == ~AnyRejected(ps)
              sendErrors == ChannelErrors(ps, 1)
              allErrors == IF needsFallback(ok) /\ fb.status = "rejected"
                           THEN fallbackFailed(sendErrors, fb.reason)
                           ELSE sendErrors
          IN Outcome(ok, allErrors)

\* C10: whatever the interleaving of two invocations, each returns what it
\* returns when run alone with the same outcomes of its own sends and of its
\* own fallback write.
C10_IndependentInvocations ==
  \A i \in Inv :
    Returned(i) => result[i] = Alone(permitData[i], pipelineResults[i], fallback[i])

\* two invocations on different records, both called before either resumed,
\* with different outcomes
C10_Witness ==
  \E i, j \in Inv :
    /\ i # j
    /\ Returned(i) /\ Returned(j)
    /\ permitData[i] = samplePermitData /\ permitData[j] = minimalData
    /\ RejectedAt(i) = {1} /\ RejectedAt(j) = {2, 3}
    /\ fallback[i].status = "fulfilled" /\ fallback[j].status = "rejected"
    /\ channelLog[i]["ingestion"][1].metadata.timestamp = IsoTime(0)
    /\ channelLog[j]["ingestion"][1].metadata.timestamp = IsoTime(0)
    /\ d1Calls[i][1].created_at = IsoTime(1)
    /\ d1Calls[j][1].created_at = IsoTime(1)
    /\ Len(result[i].errors) = 1 /\ Len(result[j].errors) = 3

\* a message of an error list: the fragments of one string
IsMessage(e) == e \in Seq(STRING) /\ Len(e) >= 1

\* C11: processPermitData never rejects: whatever the input and whatever the
\* pipelines and D1 answer, an invocation that ends has resolved with a result
\* {success, errors}, success a boolean and errors a list of strings.
C11_NeverRejects ==
  \A i \in Inv :
    /\ pc[i] \in {"idle", "awaitSettled", "awaitFallback", "done"}
    /\ Returned(i) =>
         /\ DOMAIN result[i] = {"success", "errors"}
         /\ result[i].success \in BOOLEAN
         /\ \A n \in DOMAIN result[i].errors : IsMessage(result[i].errors[n])
         /\ result[i] # NoResult

\* the three sends and the D1 run failed and the invocation resolved
C11_Witness ==
  \E i \in Inv :
    /\ Returned(i) /\ ValidRecord(i)
    /\ RejectedAt(i) = {1, 2, 3}
    /\ fallback[i].status = "rejected"
    /\ result[i].success = FALSE
    /\ result[i].errors[4][1] = "D1 fallback also failed: "

(***************************************************************************)
(* Properties of the HTTP handler.                                         *)
(***************************************************************************)
\* request i is a POST whose body parses as JSON
ParsedPost(i) ==
  /\ request[i] # NoRequest
  /\ request[i].method = "POST"
  /\ JsonParse(request[i].body).t # "throw"

Answered(i) == response[i] # NoResponse

\* C12: a POST request whose body parses as JSON is answered 200 exactly when
\* processPermitData returned success = true, with a body of success true, the
\* confirmation message and the id of the posted record, and 400 exactly when
\* it returned success = false, with a body of success false and the whole
\* error list of the result.
C12_StatusFollowsResult ==
  \A i \in Inv :
    (ParsedPost(i) /\ Answered(i)) =>
      /\ Returned(i)
      /\ response[i].status \in {200, 400}
      /\ response[i].contentType = "application/json"
      /\ response[i].body.t = "json"
      /\ response[i].status = 200 <=> result[i].success = TRUE
      /\ response[i].status = 400 <=> result[i].success = FALSE
      /\ response[i].status = 200 =>
           response[i].body.v =
             [success |-> Bool(TRUE),
              message |-> Str("Permit data processed successfully"),
              permit_id |-> JsonParse(request[i].body).v.id]
      /\ response[i].status = 400 =>
           response[i].body.v =
             [success |-> Bool(FALSE), errors |-> Arr(result[i].errors)]

\* a posted valid record went to the three pipelines and was answered 200
C12_Witness ==
  \E i \in Inv :
    /\ ParsedPost(i) /\ Answered(i)
    /\ ValidRecord(i)
    /\ RejectedAt(i) = {}
    /\ result[i].success = TRUE
    /\ response[i].status = 200
    /\ response[i].body.v.permit_id = Str("PERM-TEST-001")

\* request i has a method other than POST
NotPost(i) == request[i] # NoRequest /\ request[i].method # "POST"

\* a request that is not a POST stands answered 405, with its body unread and
\* no invocation of processPermitData behind it
RefusedUntouched ==
  \A i \in Inv :
    NotPost(i) =>
      /\ response[i].status = 405
      /\ ~bodyRead[i]
      /\ ~Called(i)
      /\ result[i] = NoResult
      /\ \A c \in Channels : SendCount(i, c) = 0
      /\ d1Calls[i] = <<>>
      /\ fallback[i] = NoPromise

\* a step that takes in or ends a request that is not a POST validates
\* nothing, sends nothing and leaves the table permit_fallback as it was
RefusedStep ==
  \A i \in Inv :
    (NotPost(i) \/ NotPost(i)') =>
      UNCHANGED <<pc, errors, result, channelLog, d1Calls, fallback, permit_fallback>>

\* C13: a request whose method is not POST is answered 405; its body is not
\* read, no validation runs, no send is issued to a pipeline and the table
\* permit_fallback is not written.
C13_MethodNotAllowed == []RefusedUntouched /\ [][RefusedStep]_vars

\* a GET request was answered 405 while the table held a row
C13_Witness ==
  \E i \in Inv :
    /\ request[i].method = "GET"
    /\ request[i].body = "JSON.stringify(samplePermitData)"
    /\ response[i].status = 405
    /\ permit_fallback # {}

\* the body b is the JSON text of an object with a boolean success and a list
\* of strings errors
IsFailureBody(b) ==
  /\ b.t = "json"
  /\ {"success", "errors"} \subseteq DOMAIN b.v
  /\ b.v.success.t = "boolean"
  /\ b.v.errors.t = "array"
  /\ \A n \in DOMAIN b.v.errors.v : IsMessage(b.v.errors.v[n])

\* C14: every failure response of fetch (method not allowed, processing
\* failure, unexpected exception) is a JSON body with a boolean success flag
\* and a list of error strings.
C14_FailureBodies ==
  \A i \in Inv :
    (Answered(i) /\ response[i].status # 200) =>
      /\ response[i].contentType = "application/json"
      /\ IsFailureBody(response[i].body)

\* request i is a POST whose body does not parse
UnparsedPost(i) ==
  /\ request[i] # NoRequest
  /\ request[i].method = "POST"
  /\ JsonParse(request[i].body).t = "throw"

\* C15: a POST request whose handling throws (its body does not parse as JSON)
\* is answered 500 with one fixed body, {success: false, error: 'Internal
\* server error'}, whatever the exception; the message of the exception is not
\* in the response.
C15_GenericFailure ==
  \A i \in Inv :
    /\ (UnparsedPost(i) /\ Answered(i)) =>
         /\ response[i].status = 500
         /\ response[i].body.v.error # Str(JsonParse(request[i].body).v)
    /\ (Answered(i) /\ response[i].status = 500) =>
         response[i] =
           [status |-> 500, contentType |-> "application/json",
            body |-> [t |-> "json",
                      v |-> [success |-> Bool(FALSE),
                             error |-> Str("Internal server error")]]]

\* a POST of a text that is no JSON was answered 500
C15_Witness ==
  \E i \in Inv :
    /\ request[i] = [method |-> "POST", body |-> "{id:"]
    /\ bodyRead[i]
    /\ ~Called(i)
    /\ response[i].status = 500

(***************************************************************************)
(* Properties of validatePermitData.                                       *)
(***************************************************************************)
Validated == ret.fn = "validatePermitData"

\* the input is absent: null or undefined
Absent(x) == x.t \in {"undefined", "null"}

\* C16: validatePermitData of an absent input (null or undefined) returns
\* valid = false and the one error 'Permit data is required'; no error of a
\* field-level check is in the list.
C16_AbsentInput ==
  (Validated /\ Absent(arg)) =>
    /\ ret.value.valid = FALSE
    /\ ret.value.errors = << <<"Permit data is required">> >>

\* null was validated
C16_Witness ==
  /\ Validated
  /\ arg = Null
  /\ Len(ret.value.errors) = 1

\* a field has no value: it is left out, or it is blank
NoValue(x) == x.t = "undefined" \/ (x.t = "string" /\ x.v = "")

\* the required top-level fields and the error that names each, in the order
\* the errors are reported in
RequiredErrors ==
  << <<"id", <<"Permit ID is required">> >>,
     <<"application_number", <<"Application number is required">> >>,
     <<"permit_type", <<"Permit type is required">> >>,
     <<"status", <<"Status is required">> >>,
     <<"filed_date", <<"Filed date is required">> >>,
     <<"description", <<"Description is required">> >>,
     <<"location", <<"Location is required">> >> >>

\* the errors of a list that are among the errors of a table, in list order
ErrorsAmong(errs, table) ==
  SelectSeq(errs, LAMBDA e : \E n \in DOMAIN table : table[n][2] = e)

\* the errors a table names for the fields of o that have no value, in table order
ErrorsExpected(o, table) ==
  LET missing == SelectSeq(table, LAMBDA c : NoValue(Get(o, c[1])))
  IN [n \in DOMAIN missing |-> missing[n][2]]

\* C17: for an input that is not absent, the required-field errors of
\* validatePermitData are the errors of the missing required fields (id,
\* application number, permit type, status, filed date, description, location):
\* one error per missing field, each naming its field, none left out after the
\* first, in one fixed order; an input with only an id yields six errors.
C17_Exhaustive ==
  (Validated /\ ~Absent(arg)) =>
    /\ ErrorsAmong(ret.value.errors, RequiredErrors) = ErrorsExpected(arg, RequiredErrors)
    /\ arg = onlyId => Len(ret.value.errors) = 6

\* the record with only an id was validated: six errors
C17_Witness ==
  /\ Validated
  /\ arg = onlyId
  /\ Len(ret.value.errors) = 6
  /\ ret.value.errors[6] = <<"Location is required">>

\* the fields of location and the error that names each
LocationSubErrors ==
  << <<"address", <<"Location address is required">> >>,
     <<"block", <<"Location block is required">> >>,
     <<"lot", <<"Location lot is required">> >>,
     <<"zipcode", <<"Location zipcode is required">> >> >>

LocationUnitError == << <<"location", <<"Location is required">> >> >>

\* C18: location is validated as a unit: when location is missing the one
\* location error is 'Location is required' and no error names a sub-field;
\* when location is present there is one error for each of address, block, lot
\* and zipcode that is missing, and no 'Location is required'.
C18_LocationAsUnit ==
  (Validated /\ ~Absent(arg)) =>
    LET location == Get(arg, "location")
        unit == ErrorsAmong(ret.value.errors, LocationUnitError)
        sub == ErrorsAmong(ret.value.errors, LocationSubErrors)
    IN IF NoValue(location)
       THEN unit = << <<"Location is required">> >> /\ sub = <<>>
       ELSE unit = <<>> /\ sub = ErrorsExpected(location, LocationSubErrors)

\* a record whose location has an address and nothing else was validated
C18_Witness ==
  /\ Validated
  /\ Get(arg, "location").t = "object"
  /\ Get(Get(arg, "location"), "address") = Str("123 Main St")
  /\ ret.value.errors = << <<"Location block is required">>,
                           <<"Location lot is required">>,
                           <<"Location zipcode is required">> >>

\* a field is present: the record has a value under its key
Present(x) == x.t # "undefined"

\* the number of times an error is in a list
Count(errs, e) == Len(SelectSeq(errs, LAMBDA x : x = e))

\* C19: for each of filed_date, issued_date and completed_date on its own,
\* validatePermitData reports '<field> must be a valid date' once when the
\* field has a value that does not parse as a date, and not at all when the
\* field has no value (it is left out or blank) or parses; three unparseable
\* dates give three such errors, one per field.
C19_DateErrors ==
  (Validated /\ ~Absent(arg)) =>
    /\ \A n \in 1..3 :
         LET field == <<"filed_date", "issued_date", "completed_date">>[n]
             value == Get(arg, field)
         IN Count(ret.value.errors, <<field, " must be a valid date">>) =
              IF ~NoValue(value) /\ DateParse(value).t = "NaN" THEN 1 ELSE 0
    /\ (/\ Get(arg, "filed_date") = Str("invalid-date")
        /\ Get(arg, "issued_date") = Str("also-invalid")
        /\ Get(arg, "completed_date") = Str("not-a-date")) =>
         \E a, b, c \in DOMAIN ret.value.errors :
           /\ a < b /\ b < c
           /\ ret.value.errors[a] = <<"filed_date", " must be a valid date">>
           /\ ret.value.errors[b] = <<"issued_date", " must be a valid date">>
           /\ ret.value.errors[c] = <<"completed_date", " must be a valid date">>

\* the record of the test with three dates that are no dates was validated:
\* its three errors are the three date errors
C19_Witness ==
  /\ Validated
  /\ ret.value.errors = << <<"filed_date", " must be a valid date">>,
                           <<"issued_date", " must be a valid date">>,
                           <<"completed_date", " must be a valid date">> >>

\* the cost fields and the error that names each
CostFieldErrors ==
  << <<"estimated_cost", <<"Estimated cost must be a positive number">> >>,
     <<"revised_cost", <<"Revised cost must be a positive number">> >> >>

\* C20: for each of estimated_cost and revised_cost on its own,
\* validatePermitData reports the cost error of the field once when the field
\* is present and is not a number or is negative, and not at all when the field
\* is absent or is a number >= 0 (zero is accepted); two invalid costs give two
\* cost errors.
C20_CostErrors ==
  (Validated /\ ~Absent(arg)) =>
    /\ \A n \in 1..2 :
         LET value == Get(arg, CostFieldErrors[n][1])
         IN Count(ret.value.errors, CostFieldErrors[n][2]) =
              IF Present(value) /\ (value.t # "number" \/ value.v < 0) THEN 1 ELSE 0
    /\ Len(ErrorsAmong(ret.value.errors, CostFieldErrors)) =
         Cardinality({n \in 1..2 :
                        LET value == Get(arg, CostFieldErrors[n][1])
                        IN Present(value) /\ (value.t # "number" \/ value.v < 0)})

\* an estimated cost of zero and a negative revised cost were validated: the
\* one error is the error of the revised cost
C20_Witness ==
  /\ Validated
  /\ Get(arg, "estimated_cost") = Num(0)
  /\ Get(arg, "revised_cost") = Num(-100)
  /\ ret.value.errors = << <<"Revised cost must be a positive number">> >>

(***************************************************************************)
(* Properties of PermitDataTransformer.                                    *)
(***************************************************************************)
\* transformForEvents returned its events
EventsReturned == ret.fn = "transformForEvents" /\ ret.value.t = "object"

\* the lifecycle dates and the type of the event of each, in lifecycle order
Lifecycle ==
  << <<"filed_date", "filed">>, <<"issued_date", "issued">>,
     <<"completed_date", "completed">> >>

\* C21: transformForEvents emits an event for a lifecycle date if and only if
\* the record has that date; the events come in the order filed, issued,
\* completed whichever dates the record has, and each carries the status of
\* the record and its own date.
C21_EventPerDate ==
  EventsReturned =>
    LET events == ret.value.v.events.v
        dated == SelectSeq(Lifecycle, LAMBDA l : ~NoValue(Get(arg, l[1])))
    IN /\ Len(events) = Len(dated)
       /\ \A n \in DOMAIN events :
            /\ events[n].v.event_type = Str(dated[n][2])
            /\ events[n].v.event_date = Get(arg, dated[n][1])
            /\ events[n].v.status = Get(arg, "status")

\* a record with a filed and a completed date and no issued date gave two
\* events, filed and then completed
C21_Witness ==
  /\ EventsReturned
  /\ Get(arg, "issued_date") = Undefined
  /\ Len(ret.value.v.events.v) = 2
  /\ ret.value.v.events.v[1].v.event_type = Str("filed")
  /\ ret.value.v.events.v[2].v.event_type = Str("completed")
  /\ ret.value.v.events.v[2].v.status = Str("Issued")

\* transformForAnalytics returned its record
AnalyticsReturned == ret.fn = "transformForAnalytics" /\ ret.value.t = "object"

\* |n|
Abs(n) == IF n < 0 THEN -n ELSE n

\* C22: processing_days of transformForAnalytics is the ceiling, in whole
\* days, of the absolute difference of issued_date and filed_date when the
\* record has both dates (never negative, whichever date is the earlier), and
\* null when it lacks one of them; filed 2023-01-15 and issued 2023-02-01
\* give 17.
C22_ProcessingDays ==
  AnalyticsReturned =>
    LET filed == Get(arg, "filed_date")
        issued == Get(arg, "issued_date")
        days == ret.value.v.timeline_data.v.processing_days
    IN /\ (NoValue(filed) \/ NoValue(issued)) => days = Null
       /\ (DateParse(filed).t = "number" /\ DateParse(issued).t = "number") =>
            /\ days.t = "number"
            /\ days.v >= 0
            /\ days.v = CeilDiv(Abs(DateParse(issued).v - DateParse(filed).v), SecondsPerDay)
       /\ (filed = Str("2023-01-15T00:00:00Z") /\ issued = Str("2023-02-01T00:00:00Z")) =>
            days = Num(17)

\* C23: cost_variance of transformForAnalytics is revised_cost minus
\* estimated_cost on every record that has both costs, a cost of zero
\* included, and is null exactly when the record lacks one of the two costs.
C23_CostVariance ==
  AnalyticsReturned =>
    LET estimated == Get(arg, "estimated_cost")
        revised == Get(arg, "revised_cost")
        variance == ret.value.v.cost_data.v.cost_variance
    IN IF Present(estimated) /\ Present(revised)
       THEN variance = Num(revised.v - estimated.v)
       ELSE variance = Null

\* transformForIngestion returned its record
IngestionReturned == ret.fn = "transformForIngestion" /\ ret.value.t = "object"

\* a group of the output is entirely absent: it is not there, or none of its
\* members is
GroupAbsent(g) ==
  \/ g.t = "undefined"
  \/ g.t = "object" /\ \A k \in DOMAIN g.v : g.v[k].t = "undefined"

\* the fields of the source record and where each goes in the ingestion
\* record: the group ("" for none) and the key
Projection ==
  << <<"id", "", "permit_id">>,
     <<"application_number", "", "application_number">>,
     <<"permit_type", "", "permit_type">>,
     <<"status", "", "status">>,
     <<"filed_date", "dates", "filed">>,
     <<"issued_date", "dates", "issued">>,
     <<"completed_date", "dates", "completed">>,
     <<"description", "", "description">>,
     <<"estimated_cost", "costs", "estimated">>,
     <<"revised_cost", "costs", "revised">>,
     <<"existing_use", "usage", "existing">>,
     <<"proposed_use", "usage", "proposed">>,
     <<"plansets", "", "plansets">>,
     <<"location", "", "location">>,
     <<"contact_info", "", "contact">> >>

\* the output field of a row of the table
Projected(out, row) ==
  IF row[2] = "" THEN Get(out, row[3]) ELSE Get(Get(out, row[2]), row[3])

\* C24: the ingestion record of a minimal valid record (only the required
\* fields set) has its groups costs, usage and contact entirely absent and its
\* dates.issued and dates.completed absent; on every record a source field
\* that is absent gives an output field that is absent, not null and not zero.
C24_AbsentStaysAbsent ==
  IngestionReturned =>
    /\ arg = minimalData =>
         /\ GroupAbsent(Get(ret.value, "costs"))
         /\ GroupAbsent(Get(ret.value, "usage"))
         /\ GroupAbsent(Get(ret.value, "contact"))
         /\ Get(Get(ret.value, "dates"), "issued").t = "undefined"
         /\ Get(Get(ret.value, "dates"), "completed").t = "undefined"
         /\ Get(Get(ret.value, "dates"), "filed") = Str("2023-01-15T00:00:00Z")
    /\ \A n \in DOMAIN Projection :
         Get(arg, Projection[n][1]).t = "undefined" =>
           Projected(ret.value, Projection[n]).t = "undefined"

\* the minimal record of the test went through transformForIngestion
C24_Witness ==
  /\ IngestionReturned
  /\ arg = minimalData
  /\ ret.value.v.permit_id = Str("PERM-123456")
  /\ ret.value.v.contact = Undefined
  /\ ret.value.v.costs.t = "object"

\* C25: transformForIngestion, transformForEvents and transformForAnalytics
\* are total: on every object with the keys of a permit record, whatever
\* values are absent (a record that failed validation, one with no location,
\* included), each returns a result and does not throw.
C25_Total ==
  ret.fn \in {"transformForIngestion", "transformForEvents", "transformForAnalytics"} =>
    ret.value.t # "throw"

(***************************************************************************)
(* Properties of the payloads and of the error list.                       *)
(***************************************************************************)
\* the shape a channel is to receive of a record
DerivedShape(c, permit) ==
  CASE c = "ingestion" -> transformForIngestion(permit)
    [] c = "events" -> transformForEvents(permit)
    [] c = "analytics" -> transformForAnalytics(permit)

\* C26: for a valid record, the payload handed to each of the three channels
\* is an envelope: its data is the shape derived for that channel, and its
\* metadata has the source 'permit-sync-worker', the version '1.0.0', a
\* timestamp and the pipeline_target that names the channel it is sent to.
C26_Envelope ==
  \A i \in Inv :
    (Called(i) /\ ValidRecord(i)) =>
      \A c \in Channels :
        /\ SendCount(i, c) = 1
        /\ LET payload == channelLog[i][c][1]
           IN /\ DOMAIN payload = {"data", "metadata"}
              /\ payload.data = DerivedShape(c, permitData[i])
              /\ payload.data.t = "object"
              /\ DOMAIN payload.metadata =
                   {"timestamp", "source", "version", "pipeline_target"}
              /\ payload.metadata.source = "permit-sync-worker"
              /\ payload.metadata.version = "1.0.0"
              /\ payload.metadata.pipeline_target = c
              /\ payload.metadata.timestamp.t = "isotime"
              /\ payload.metadata.timestamp.v \in 0..clock

\* the record of the tests was sent at time 1: three envelopes, the events
\* envelope with its three events
C26_Witness ==
  \E i \in Inv :
    /\ permitData[i] = samplePermitData
    /\ \A c \in Channels : SendCount(i, c) = 1
    /\ channelLog[i]["events"][1].metadata.pipeline_target = "events"
    /\ Len(channelLog[i]["events"][1].data.v.events.v) = 3
    /\ channelLog[i]["analytics"][1].metadata.timestamp = IsoTime(1)

\* the channels whose send failed, in the order ingestion, events, analytics
FailedChannels(i) ==
  SelectSeq(<<1, 2, 3>>, LAMBDA k : pipelineResults[i][k].status = "rejected")

\* the errors of a list that name a channel
SendErrors(es) == SelectSeq(es, LAMBDA e : e[1] = "Failed to send to ")

\* C27: each failed send gives one error that names its channel; the channel
\* errors stand in the returned list in the order ingestion, events,
\* analytics, in whatever order the three sends settled; the fallback error,
\* when there is one, is the last entry.
C27_ErrorOrder ==
  \A i \in Inv :
    (Returned(i) /\ ValidRecord(i)) =>
      LET es == result[i].errors
          failed == FailedChannels(i)
      IN /\ Len(SendErrors(es)) = Len(failed)
         /\ \A n \in DOMAIN failed :
              /\ es[n][1] = "Failed to send to "
              /\ es[n][2] = <<"ingestion", "events", "analytics">>[failed[n]]
              /\ es[n][4] = pipelineResults[i][failed[n]].reason
         /\ \A n \in DOMAIN es :
              es[n][1] = "D1 fallback also failed: " => n = Len(es) /\ n = Len(failed) + 1
         /\ Len(es) = Len(failed) + (IF fallback[i].status = "rejected" THEN 1 ELSE 0)

\* the ingestion and the analytics send failed for different reasons and the
\* D1 run failed: three errors, ingestion, analytics, fallback
C27_Witness ==
  \E i \in Inv :
    /\ Returned(i) /\ ValidRecord(i)
    /\ RejectedAt(i) = {1, 3}
    /\ pipelineResults[i][1].reason # pipelineResults[i][3].reason
    /\ Len(result[i].errors) = 3
    /\ result[i].errors[2][2] = "analytics"
    /\ result[i].errors[3][1] = "D1 fallback also failed: "

(***************************************************************************)
(* Properties of the objects the payloads and the record lead to.          *)
(***************************************************************************)
\* what a holder reads in a value: the objects it has by reference, read
\* through the references
RECURSIVE Contents(_)
Contents(x) ==
  CASE x.t = "reference" -> Contents(heap[x.v])
    [] x.t = "object" -> Obj([k \in DOMAIN x.v |-> Contents(x.v[k])])
    [] x.t = "array" -> Arr([n \in DOMAIN x.v |-> Contents(x.v[n])])
    [] OTHER -> x

\* what the pipeline of channel c has received of invocation i
Received(i, c) == Contents(channelLog[i][c][1].data)

\* the row the fallback of invocation i writes, when it comes to write
FallbackRow(i) == saveToD1Fallback(fallbackArgument(permitData[i]), 0)

\* the pipeline of channel c writes to the payload it received
Modifies(i, c) ==
  \/ \E a \in SharedObjects, k \in WrittenKeys : WriteShared(i, c, a, k, Modified)
  \/ \E k \in WrittenKeys : WriteOwn(i, c, k, Modified)

\* C28: no mutable object is shared between the payload handed to one
\* channel, the payload handed to another channel and the source record; a
\* channel that modifies the payload it received changes neither what another
\* channel receives nor what the fallback store later writes.
C28_PayloadIsolation ==
  [][\A i \in Inv :
       pc[i] = "awaitSettled" =>
         /\ \A c \in Channels :
              /\ References(channelLog[i][c][1].data) \cap References(permitData[i]) = {}
              /\ \A other \in Channels \ {c} :
                   References(channelLog[i][c][1].data)
                     \cap References(channelLog[i][other][1].data) = {}
         /\ \A c \in Channels :
              Modifies(i, c) =>
                /\ \A other \in Channels \ {c} : Received(i, other)' = Received(i, other)
                /\ FallbackRow(i)' = FallbackRow(i)]_vars

\* the same, of the effects alone
C28_Effects ==
  [][\A i \in Inv, c \in Channels :
       (pc[i] = "awaitSettled" /\ Modifies(i, c)) =>
         /\ \A other \in Channels \ {c} : Received(i, other)' = Received(i, other)
         /\ FallbackRow(i)' = FallbackRow(i)]_vars

(***************************************************************************)
(* Properties of the schema validators.                                    *)
(***************************************************************************)
SchemaValidated ==
  ret.fn \in {"validatePermitRecord", "validateEventRecord",
              "validateInspectorAnalyticsRecord"}

\* C29: the ValidationResult returned by validatePermitRecord,
\* validateEventRecord and validateInspectorAnalyticsRecord has isValid = true
\* if and only if its errors list is empty, also when the only defects are
\* found by the checks of the schema that run after the common checks.
C29_ValidIffNoErrors ==
  SchemaValidated => (ret.value.isValid <=> ret.value.errors = <<>>)

(***************************************************************************)
(* Properties of the test runner.                                          *)
(***************************************************************************)
\* the four checks of the verifier passed
AllChecksPassed ==
  /\ VERIFICATION_RESULTS.dataFlow
  /\ VERIFICATION_RESULTS.r2Storage
  /\ VERIFICATION_RESULTS.fileNaming
  /\ VERIFICATION_RESULTS.compression

\* C30: when the four checks of the verifier (pipeline status, R2 storage,
\* file naming, compression) all pass, runDataFlowVerification records
\* dataFlow.status 'PASS' with the exit code 0; it records 'FAIL' only when
\* a check failed or the verifier raised an error.
C30_DataFlowStatus ==
  at = "recorded" =>
    /\ AllChecksPassed =>
         /\ results.dataFlow.status = "PASS"
         /\ results.dataFlow.exitCode = 0
    /\ results.dataFlow.status = "FAIL" =>
         (~AllChecksPassed \/ "error" \in DOMAIN results.dataFlow)
====
